---- MODULE Spec2Model ----
(***************************************************************************)
(* Model of the USAC open-data download scripts (src/src/download.ts,      *)
(* src/src/utils.ts): the query builder, the paged fetch session           *)
(* (streamUSACData) and its consumer (downloadAndPopulateUSACData); of the *)
(* two CALC_DELTA of src/unnamed/part_002; of withExponentialBackoff; and  *)
(* of downloadUSACDataAndDelta (src/src/running-delta.ts).                 *)
(*                                                                         *)
(* Representation.                                                         *)
(*  - A JavaScript option value is a record [kind, v]: kind is "null",     *)
(*    "scalar" (v holds the one string) or "array" (v is the array).       *)
(*  - An options object is the sequence of its entries [key, val], in      *)
(*    insertion order (the order Object.entries walks).                    *)
(*  - A row of the remote dataset is a record [id, ben, state, year]; the  *)
(*    CSV header line is the row Header, whose id is 0.                    *)
(*  - The page size and the ben chunk size are scaled down from the        *)
(*    source's 1000 and 10 so that several pages and several chunks occur  *)
(*    in small datasets; every formula is stated in terms of the names.    *)
(***************************************************************************)
EXTENDS Integers, Sequences, FiniteSets, TLC

VARIABLES
    viewName,      \* argument of streamUSACData
    options,       \* argument of streamUSACData (the filter options)
    remote,        \* the remote dataset, rows in :id order (static)
    pc,            \* position of the script: "init", "running", "yielded", ...
    combos,        \* chunkedOptionsCombinations
    ci,            \* index of currentOptions in combos (1-based)
    offset,        \* offset of the generator
    isFirstChunk,  \* isFirstChunk of the generator
    chunk,         \* the batch the generator is suspended on
    requests,      \* log of the requests issued, in order
    yielded,       \* log of the batches yielded, in order
    sheet,         \* rows of the target sheet, row r at index r
    rowCount,      \* rowCount of downloadAndPopulateUSACData
    sinkFirst,     \* isFirstChunk of downloadAndPopulateUSACData
    call,          \* pure-function harness: the function applied and its inputs
    result,        \* pure-function harness: the value returned
    attempts,      \* attempts of withExponentialBackoff
    delay,         \* delay of withExponentialBackoff
    invocations,   \* log of the outcomes of operation(), in order
    slept,         \* log of the arguments of Utilities.sleep, in order
    previousSheet, \* rows of the sheet named previousSheetName
    allSheet,      \* rows of the sheet named allSheetName (the running sheet)
    deltaSheet,    \* rows of the sheet named deltaSheetName
    allDeltaSheet, \* rows of the sheet named allDeltaSheetName
    day,           \* the calendar day, counted from 1
    runs           \* runs of downloadUSACDataAndDelta so far

vars == <<viewName, options, remote, pc, combos, ci, offset, isFirstChunk,
          chunk, requests, yielded, sheet, rowCount, sinkFirst, call, result,
          attempts, delay, invocations, slept, previousSheet, allSheet,
          deltaSheet, allDeltaSheet, day, runs>>

sessionVars == <<viewName, options, remote, pc, combos, ci, offset,
                 isFirstChunk, chunk, requests, yielded, sheet, rowCount,
                 sinkFirst>>

backoffVars == <<attempts, delay, invocations, slept>>

bookVars == <<previousSheet, allSheet, deltaSheet, allDeltaSheet, day, runs>>

sessionVars_but_pc == <<viewName, options, remote, combos, ci, offset,
                        isFirstChunk, chunk, requests, yielded, sheet,
                        rowCount, sinkFirst>>

-----------------------------------------------------------------------------
(* Bounds of the model *)

\* rows of the remote dataset
MaxRows == 3

\* values in one filter dimension handed to the query builder
MaxValues == 3

\* rows of a snapshot handed to CALC_DELTA
MaxSnapshot == 2

\* greatest maxAttempts option handed to withExponentialBackoff
MaxAttemptsOption == 3

-----------------------------------------------------------------------------
(* Program constants *)

\* download.ts:78, scaled: rows fetched per request
CHUNK_SIZE == 2

\* download.ts:83-87, the ben chunk size scaled; 0 stands for null
OPTIONS_CHUNK_SIZES == [ben |-> 2, funding_year |-> 0, state |-> 0]

-----------------------------------------------------------------------------
(* JavaScript values *)

Null == [kind |-> "null", v |-> <<>>]

Scalar(s) == [kind |-> "scalar", v |-> <<s>>]

Arr(s) == [kind |-> "array", v |-> s]

Entry(k, val) == [key |-> k, val |-> val]

Min(a, b) == IF a < b THEN a ELSE b

Max(a, b) == IF a > b THEN a ELSE b

Range(s) == {s[i] : i \in DOMAIN s}

\* the first n arrays of ss, concatenated
RECURSIVE FlattenTo(_, _)
FlattenTo(ss, n) == IF n = 0 THEN <<>> ELSE FlattenTo(ss, n - 1) \o ss[n]

\* Array.prototype.flat of an array of arrays
Flatten(ss) == FlattenTo(ss, Len(ss))

-----------------------------------------------------------------------------
(* utils.ts: chunkArray, cartesianProduct *)

\* chunkArray with each slice one element short: array.slice(i, i + chunkSize - 1)
chunkArray_shortSlice(array, chunkSize) ==
    IF array.kind = "null" \/ Len(array.v) = 0 \/ chunkSize = 0
    THEN <<array>>
    ELSE [i \in 1..((Len(array.v) + chunkSize - 1) \div chunkSize) |->
            Arr(SubSeq(array.v, (i - 1) * chunkSize + 1,
                       Min(i * chunkSize - 1, Len(array.v))))]

\* `!array || array.length === 0 || !chunkSize` returns [array]; otherwise
\* the consecutive slices array.slice(i, i + chunkSize)
chunkArray(array, chunkSize) ==
    IF array.kind = "null" \/ Len(array.v) = 0 \/ chunkSize = 0
    THEN <<array>>
    ELSE [i \in 1..((Len(array.v) + chunkSize - 1) \div chunkSize) |->
            Arr(SubSeq(array.v, (i - 1) * chunkSize + 1,
                       Min(i * chunkSize, Len(array.v))))]

\* acc.flatMap((x) => array.map((y) => [...x, y]))
FlatMapAppend(acc, array) ==
    [k \in 1..(Len(acc) * Len(array)) |->
        Append(acc[((k - 1) \div Len(array)) + 1],
               array[((k - 1) % Len(array)) + 1])]

\* arrays.reduce(..., [[]])
\* the accumulator of the reduce after the first n arrays; it is bound
\* once (acc) before the callback runs on array n
RECURSIVE cartesianReduceTo(_, _)
cartesianReduceTo(arrays, n) ==
    IF n = 0 THEN << <<>> >>
    ELSE CHOOSE next \in {FlatMapAppend(acc, arrays[n]) :
                             acc \in {cartesianReduceTo(arrays, n - 1)}} : TRUE

\* arrays.reduce(..., [[]])
cartesianProduct(arrays) == cartesianReduceTo(arrays, Len(arrays))

-----------------------------------------------------------------------------
(* download.ts: generateChunkedOptionsCombinations *)

\* chunkSizes[key], with undefined and null both read as 0 (falsy)
ChunkSizeOf(chunkSizes, key) ==
    IF key \in DOMAIN chunkSizes THEN chunkSizes[key] ELSE 0

\* the chunkedOptions object, as the sequence of its values in key order
chunkedOptionsOf(opts, chunkSizes) ==
    [i \in 1..Len(opts) |->
        IF opts[i].val.kind = "array" /\ ChunkSizeOf(chunkSizes, opts[i].key) # 0
        THEN chunkArray(opts[i].val, ChunkSizeOf(chunkSizes, opts[i].key))
        ELSE <<opts[i].val>>]

generateChunkedOptionsCombinations(opts, chunkSizes) ==
    LET product == cartesianProduct(chunkedOptionsOf(opts, chunkSizes))
    IN  [c \in 1..Len(product) |->
            [index \in 1..Len(opts) |->
                Entry(opts[index].key, product[c][index])]]

-----------------------------------------------------------------------------
(* download.ts: VIEW_COLUMN_NAME_MAP, mapOptions *)

NoColumn == [null |-> TRUE, col |-> ""]

Column(c) == [null |-> FALSE, col |-> c]

\* download.ts:6-24, the view names of ViewIDs
ViewIDs ==
    {"FRN_STATUS", "FRN_LINE_ITEMS", "FRN_RECIPIENTS_OF_SERVICE",
     "FRN_BASIC_INFORMATION", "SUPPLEMENTAL_ENTITY_DATA", "CONSULTANTS",
     "CAT2_BUDGETS", "RHC_COMMITMENTS_AND_DISBURSEMENTS"}

VIEW_COLUMN_NAME_MAP ==
    [FRN_STATUS |->
        [ben |-> Column("ben"), state |-> Column("state"),
         year |-> Column("funding_year")],
     FRN_LINE_ITEMS |->
        [ben |-> Column("ben"), state |-> Column("state"),
         year |-> Column("funding_year")],
     FRN_RECIPIENTS_OF_SERVICE |->
        [ben |-> Column("ben_no"), state |-> Column("org_state"),
         year |-> Column("funding_year")],
     FRN_BASIC_INFORMATION |->
        [ben |-> Column("epc_organization_id"), state |-> Column("org_state"),
         year |-> Column("funding_year")],
     SUPPLEMENTAL_ENTITY_DATA |->
        [ben |-> Column("entity_number"), state |-> Column("physical_state"),
         year |-> NoColumn],
     CONSULTANTS |->
        [ben |-> Column("epc_organization_id"), state |-> Column("state"),
         year |-> Column("funding_year")],
     CAT2_BUDGETS |->
        [ben |-> Column("ben"), year |-> NoColumn],
     RHC_COMMITMENTS_AND_DISBURSEMENTS |->
        [ben |-> NoColumn, state |-> Column("filing_hcp_state"),
         year |-> Column("funding_year"),
         filing_hcp_name |-> Column("filing_hcp_name")]]

\* obj[key] = value: a key already present keeps its position
SetEntry(obj, key, val) ==
    IF \E i \in DOMAIN obj : obj[i].key = key
    THEN [i \in DOMAIN obj |->
            IF obj[i].key = key THEN Entry(key, val) ELSE obj[i]]
    ELSE Append(obj, Entry(key, val))

\* mapOptions without the `mappedKey != null` test: a dimension the view
\* has no column for is kept under its own name
mapOneOption_keepUnmapped(mapped, e, view) ==
    IF e.val.kind = "null" THEN mapped
    ELSE IF view \in DOMAIN VIEW_COLUMN_NAME_MAP
            /\ e.key \in DOMAIN VIEW_COLUMN_NAME_MAP[view]
            /\ ~VIEW_COLUMN_NAME_MAP[view][e.key].null
         THEN SetEntry(mapped, VIEW_COLUMN_NAME_MAP[view][e.key].col, e.val)
         ELSE SetEntry(mapped, e.key, e.val)

\* the body of the forEach callback of mapOptions, for one entry
mapOneOption(mapped, e, view) ==
    IF e.val.kind = "null" THEN mapped
    ELSE IF view \in DOMAIN VIEW_COLUMN_NAME_MAP
            /\ e.key \in DOMAIN VIEW_COLUMN_NAME_MAP[view]
         THEN IF ~VIEW_COLUMN_NAME_MAP[view][e.key].null
              THEN SetEntry(mapped, VIEW_COLUMN_NAME_MAP[view][e.key].col, e.val)
              ELSE mapped
         ELSE SetEntry(mapped, e.key, e.val)

\* mappedOptions after the first n entries of the options; the object
\* built so far is bound once (m) before the callback runs on entry n
RECURSIVE mapOptionsTo(_, _, _)
mapOptionsTo(opts, view, n) ==
    IF n = 0 THEN <<>>
    ELSE CHOOSE mapped \in {mapOneOption(m, opts[n], view) :
                               m \in {mapOptionsTo(opts, view, n - 1)}} : TRUE

mapOptions(opts, view) == mapOptionsTo(opts, view, Len(opts))

-----------------------------------------------------------------------------
(* download.ts: formatValue, formatOrConditions, buildCondition,           *)
(* buildWhereClause                                                        *)
(*                                                                         *)
(* A grave accent can stand in a TLA+ string literal only when an          *)
(* apostrophe follows it in the same literal, so the head of a clause      *)
(* (the quoted column name, the operator and the apostrophe that opens the *)
(* first value) is one literal per column name.                            *)

\* `(\`${key}\` = ` and the opening apostrophe of formatValue
EqHead(key) ==
    CASE key = "ben" -> "(`ben` = '"
      [] key = "state" -> "(`state` = '"
      [] key = "year" -> "(`year` = '"
      [] key = "funding_year" -> "(`funding_year` = '"
      [] key = "ben_no" -> "(`ben_no` = '"
      [] key = "org_state" -> "(`org_state` = '"
      [] key = "epc_organization_id" -> "(`epc_organization_id` = '"
      [] key = "entity_number" -> "(`entity_number` = '"
      [] key = "physical_state" -> "(`physical_state` = '"
      [] key = "filing_hcp_state" -> "(`filing_hcp_state` = '"
      [] key = "filing_hcp_name" -> "(`filing_hcp_name` = '"

\* `(\`${key}\` IN (` and the opening apostrophe of formatValue
InHead(key) ==
    CASE key = "ben" -> "(`ben` IN ('"
      [] key = "state" -> "(`state` IN ('"
      [] key = "year" -> "(`year` IN ('"
      [] key = "funding_year" -> "(`funding_year` IN ('"
      [] key = "ben_no" -> "(`ben_no` IN ('"
      [] key = "org_state" -> "(`org_state` IN ('"
      [] key = "epc_organization_id" -> "(`epc_organization_id` IN ('"
      [] key = "entity_number" -> "(`entity_number` IN ('"
      [] key = "physical_state" -> "(`physical_state` IN ('"
      [] key = "filing_hcp_state" -> "(`filing_hcp_state` IN ('"
      [] key = "filing_hcp_name" -> "(`filing_hcp_name` IN ('"

\* `'${value}'`
formatValue(value) == "'" \o value \o "'"

\* formatValue(value) without the opening apostrophe, which the head holds
formatValueTail(value) == value \o "'"

\* the first n values formatted and joined by ", ", without the opening
\* apostrophe
RECURSIVE joinOrTo(_, _)
joinOrTo(values, n) ==
    IF n = 1 THEN formatValueTail(values[1])
    ELSE joinOrTo(values, n - 1) \o ", " \o formatValue(values[n])

\* values.map(formatValue).join(", "), without the opening apostrophe
formatOrConditionsTail(values) == joinOrTo(values, Len(values))

\* buildCondition with `value.length > 0`: a one-element array becomes an
\* IN-list
buildCondition_inForOne(key, value) ==
    IF value.kind = "array" /\ Len(value.v) > 0
    THEN InHead(key) \o formatOrConditionsTail(value.v) \o "))"
    ELSE EqHead(key) \o formatValueTail(value.v[1]) \o ")"

buildCondition(key, value) ==
    IF value.kind = "array" /\ Len(value.v) > 1
    THEN InHead(key) \o formatOrConditionsTail(value.v) \o "))"
    ELSE EqHead(key) \o formatValueTail(value.v[1]) \o ")"

\* `value != null && value.length > 0` (the length of a scalar string is
\* its number of characters: only the empty string has none)
IsActive(e) ==
    /\ e.val.kind # "null"
    /\ IF e.val.kind = "array" THEN Len(e.val.v) > 0 ELSE e.val.v[1] # ""

\* the entries among the first n that the filter keeps
RECURSIVE activeEntriesTo(_, _)
activeEntriesTo(opts, n) ==
    IF n = 0 THEN <<>>
    ELSE IF IsActive(opts[n])
         THEN Append(activeEntriesTo(opts, n - 1), opts[n])
         ELSE activeEntriesTo(opts, n - 1)

\* Object.entries(options).filter(...)
activeEntries(opts) == activeEntriesTo(opts, Len(opts))

\* the first n conditions joined by " AND ", the last one first
RECURSIVE joinAndTo_reversed(_, _)
joinAndTo_reversed(conditions, n) ==
    IF n = 0 THEN ""
    ELSE IF n = 1 THEN conditions[1]
    ELSE conditions[n] \o " AND " \o joinAndTo_reversed(conditions, n - 1)

\* the first n conditions joined by " AND "
RECURSIVE joinAndTo(_, _)
joinAndTo(conditions, n) ==
    IF n = 0 THEN ""
    ELSE IF n = 1 THEN conditions[1]
    ELSE joinAndTo(conditions, n - 1) \o " AND " \o conditions[n]

\* conditions.join(" AND ")
formatAndConditions(conditions) == joinAndTo(conditions, Len(conditions))

\* .map(([key, value]) => buildCondition(key, value))
conditionsOf(entries) ==
    [i \in 1..Len(entries) |-> buildCondition(entries[i].key, entries[i].val)]

buildWhereClause(opts) ==
    LET conditions == conditionsOf(activeEntries(opts))
    IN  IF Len(conditions) > 0
        THEN "WHERE " \o formatAndConditions(conditions)
        ELSE ""

-----------------------------------------------------------------------------
(* The remote dataset (the SODA endpoint behind makeAuthenticatedRequest)  *)

Header == [id |-> 0, ben |-> "ben", state |-> "state", year |-> "funding_year"]

\* the datasets of up to MaxRows rows; the row id is the position
Datasets ==
    UNION {[1..n -> [ben : {"b1", "b2", "b3"}, state : {"NC", "VA"}]] :
              n \in 0..MaxRows}

RowsOf(d) ==
    [i \in 1..Len(d) |->
        [id |-> i, ben |-> d[i].ben, state |-> d[i].state, year |-> "2024"]]

\* the cell of a row under a remote column name
Cell(row, col) ==
    CASE col \in {"ben", "ben_no", "epc_organization_id", "entity_number"} -> row.ben
      [] col \in {"state", "org_state", "physical_state", "filing_hcp_state"} -> row.state
      [] col \in {"funding_year", "year"} -> row.year

\* the predicate the WHERE clause of buildWhereClause(mapped) states
Satisfies(row, mapped) ==
    \A e \in Range(activeEntries(mapped)) :
        Cell(row, e.key) \in Range(e.val.v)

\* the rows among the first n that satisfy the predicate
RECURSIVE SelectRowsTo(_, _, _)
SelectRowsTo(rows, mapped, n) ==
    IF n = 0 THEN <<>>
    ELSE IF Satisfies(rows[n], mapped)
         THEN Append(SelectRowsTo(rows, mapped, n - 1), rows[n])
         ELSE SelectRowsTo(rows, mapped, n - 1)

SelectRows(rows, mapped) == SelectRowsTo(rows, mapped, Len(rows))

\* SELECT * <where> ORDER BY :id LIMIT limit OFFSET off, parsed by
\* Utilities.parseCsv: the header line, then the page
Response(rows, mapped, limit, off) ==
    LET all == SelectRows(rows, mapped)
    IN  <<Header>> \o SubSeq(all, off + 1, Min(off + limit, Len(all)))

-----------------------------------------------------------------------------
(* Sessions: downloadAndPopulateUSACData driving streamUSACData            *)

Views ==
    {"FRN_BASIC_INFORMATION", "CAT2_BUDGETS",
     "RHC_COMMITMENTS_AND_DISBURSEMENTS", "NO_SUCH_VIEW"}

YearInputs == {Arr(<<"2024">>)}

StateInputs == {Null, Arr(<<"NC">>), Arr(<<"NC", "VA">>)}

BenInputs ==
    {Null, Arr(<<>>), Arr(<<"b1">>), Arr(<<"b2", "b3", "b1">>),
     Arr(<<"b1", "b2", "b1">>)}

\* the options getConfigData builds: year, state, ben in this order
OptionInputs ==
    {<<Entry("year", y), Entry("state", s), Entry("ben", b)>> :
        y \in YearInputs, s \in StateInputs, b \in BenInputs}

\* what the sheet holds before the download
StaleRow == [id |-> -1, ben |-> "old", state |-> "old", year |-> "old"]

NoCall == [fn |-> "none", opts |-> <<>>, sizes |-> <<>>]

NoResult == [done |-> FALSE, value |-> <<>>]

\* no workbook is attached: the sheets of downloadUSACDataAndDelta are empty
BookIdle ==
    /\ previousSheet = <<>>
    /\ allSheet = <<>>
    /\ deltaSheet = <<>>
    /\ allDeltaSheet = <<>>
    /\ day = 1
    /\ runs = 0

\* no call of withExponentialBackoff is under way
BackoffIdle ==
    /\ attempts = 0
    /\ delay = 0
    /\ invocations = <<>>
    /\ slept = <<>>

Init ==
    /\ viewName \in Views
    /\ options \in OptionInputs
    /\ remote \in {RowsOf(d) : d \in Datasets}
    /\ pc = "init"
    /\ combos = <<>>
    /\ ci = 0
    /\ offset = 0
    /\ isFirstChunk = TRUE
    /\ chunk = <<>>
    /\ requests = <<>>
    /\ yielded = <<>>
    /\ sheet = <<StaleRow, StaleRow>>
    /\ rowCount = 0
    /\ sinkFirst = TRUE
    /\ call = NoCall
    /\ result = NoResult
    /\ BackoffIdle
    /\ BookIdle

\* downloadAndPopulateUSACData up to the first request of the generator:
\* sheet.clear(), then streamUSACData checks the view and builds the
\* combinations
Start ==
    /\ pc = "init"
    /\ sheet' = <<>>
    /\ sinkFirst' = TRUE
    /\ rowCount' = 1
    /\ isFirstChunk' = TRUE
    /\ IF viewName \notin ViewIDs
       THEN /\ pc' = "failed"
            /\ UNCHANGED <<combos, ci, offset>>
       ELSE /\ combos' = generateChunkedOptionsCombinations(options,
                                                            OPTIONS_CHUNK_SIZES)
            /\ ci' = 1
            /\ offset' = 0
            /\ pc' = "running"
    /\ UNCHANGED <<viewName, options, remote, chunk, requests, yielded,
                   call, result, backoffVars, bookVars>>

\* the status test with `< 200`: an error status passes as a success
IsSuccess_anyStatus(status) == status >= 200

\* `response.getResponseCode() !== 200` throws
IsSuccess(status) == status = 200

\* the test with `data.length > 2`: a page of one record counts as empty
HasRecords_moreThanOne(data) == Len(data) > 2

\* the test with `data.length > 0`: a header-only response counts as a page
HasRecords_headerCounts(data) == Len(data) > 0

\* `data.length > 1`: the response holds a record besides the header
HasRecords(data) == Len(data) > 1

\* the yield without the slice: every batch keeps its header
BatchOf_keepHeader(first, data) == data

\* `yield data` for the first chunk of the session, `yield data.slice(1)`
\* for every other one
BatchOf(first, data) == IF first THEN data ELSE Tail(data)

\* the generator with `offset += 1`: pages overlap
NextOffset_byOne(off) == off + 1

\* the generator without the increment: the same page is requested again
NextOffset_stuck(off) == off

\* `offset += CHUNK_SIZE`
NextOffset(off) == off + CHUNK_SIZE

\* the loop ending one combination early
LastCombination_early(c, cs) == c >= Len(cs) - 1

\* the for-of loop over the combinations ends after the last one
LastCombination(c, cs) == c >= Len(cs)

\* one iteration of `while (hasMore)`: the request, and what follows from
\* its response up to the yield, the next combination, the end or the throw
FetchPage(status) ==
    /\ pc = "running"
    /\ \E mappedOptions \in {mapOptions(combos[ci], viewName)} :
       \E whereClause \in {buildWhereClause(mappedOptions)} :
       \E data \in {Response(remote, mappedOptions, CHUNK_SIZE, offset)} :
           /\ requests' = Append(requests,
                  [ci |-> ci, offset |-> offset, where |-> whereClause,
                   conds |-> activeEntries(mappedOptions), status |-> status,
                   records |-> IF status = 200 THEN Len(data) - 1 ELSE 0])
           /\ IF ~IsSuccess(status)
              THEN /\ pc' = "failed"
                   /\ UNCHANGED <<ci, offset, isFirstChunk, chunk, yielded>>
              ELSE IF HasRecords(data)
              THEN /\ chunk' = BatchOf(isFirstChunk, data)
                   /\ isFirstChunk' = FALSE
                   /\ yielded' = Append(yielded,
                          [ci |-> ci, offset |-> offset, batch |-> chunk'])
                   /\ pc' = "yielded"
                   /\ UNCHANGED <<ci, offset>>
              ELSE /\ ci' = ci + 1
                   /\ offset' = 0
                   /\ pc' = IF LastCombination(ci, combos) THEN "done"
                            ELSE "running"
                   /\ UNCHANGED <<isFirstChunk, chunk, yielded>>
    /\ UNCHANGED <<viewName, options, remote, combos, sheet, rowCount,
                   sinkFirst, call, result, backoffVars, bookVars>>

\* range.setValues(chunk) on sheet.getRange(row, 1, chunk.length, ...)
setValues(sh, row, values) ==
    [r \in 1..Max(Len(sh), row + Len(values) - 1) |->
        IF r >= row /\ r < row + Len(values) THEN values[r - row + 1]
        ELSE sh[r]]

\* the body of `for (const chunk of dataStream)`, then the generator
\* resumes after its yield: offset += CHUNK_SIZE
Consume ==
    /\ pc = "yielded"
    /\ sheet' = setValues(sheet, rowCount, chunk)
    /\ IF sinkFirst
       THEN /\ sinkFirst' = FALSE
            /\ rowCount' = Len(chunk)
       ELSE /\ rowCount' = rowCount + Len(chunk)
            /\ UNCHANGED sinkFirst
    /\ offset' = NextOffset(offset)
    /\ pc' = "running"
    /\ UNCHANGED <<viewName, options, remote, combos, ci, isFirstChunk, chunk,
                   requests, yielded, call, result, backoffVars, bookVars>>

Next ==
    \/ Start
    \/ \E status \in {200, 500} : FetchPage(status)
    \/ Consume

Spec == Init /\ [][Next]_vars

\* the sessions of a remote that answers every request with status 200; the
\* script runs to its end without waiting on anything but the response
NextOk ==
    \/ Start
    \/ FetchPage(200)
    \/ Consume

\* the sessions that filter on both states, with every ben input
LiveInit ==
    /\ Init
    /\ viewName \in {"FRN_BASIC_INFORMATION", "NO_SUCH_VIEW"}
    /\ options[2].val = Arr(<<"NC", "VA">>)

SpecLive == LiveInit /\ [][NextOk]_vars /\ WF_vars(NextOk)

-----------------------------------------------------------------------------
(* The query builder applied to bounded inputs:                            *)
(* generateChunkedOptionsCombinations and buildWhereClause                 *)

SeqsUpTo(S, n) == UNION {[1..k -> S] : k \in 0..n}

\* the values one dimension can hold: null, a scalar (the empty string
\* among them) or an array
ValueInputs(S) ==
    {Null, Scalar("")} \cup {Scalar(x) : x \in S}
        \cup {Arr(a) : a \in SeqsUpTo(S, MaxValues)}

StateDim == {Entry("state", x) : x \in ValueInputs({"NC", "VA"})}

BenDim == {Entry("ben", x) : x \in ValueInputs({"b1", "b2"})}

\* option objects of up to two dimensions, in either insertion order
BuilderOptions ==
    {<<>>} \cup {<<e>> : e \in StateDim \cup BenDim}
        \cup {<<e, f>> : e \in StateDim, f \in BenDim}
        \cup {<<f, e>> : e \in StateDim, f \in BenDim}

\* chunk specs; 0 stands for null, a missing key for undefined
ChunkSpecs ==
    {[ben |-> n, state |-> m] : n \in 0..2, m \in 0..2}
        \cup {[ben |-> n] : n \in 1..2}

BuilderCalls ==
    {[fn |-> "generateChunkedOptionsCombinations", opts |-> o, sizes |-> z] :
        o \in {b \in BuilderOptions : Len(b) = 2}, z \in ChunkSpecs}
    \cup {[fn |-> "buildWhereClause", opts |-> o, sizes |-> <<>>] :
        o \in BuilderOptions}

QueryInit ==
    /\ call \in BuilderCalls
    /\ result = NoResult
    /\ viewName = ""
    /\ options = <<>>
    /\ remote = <<>>
    /\ pc = "builder"
    /\ combos = <<>>
    /\ ci = 0
    /\ offset = 0
    /\ isFirstChunk = TRUE
    /\ chunk = <<>>
    /\ requests = <<>>
    /\ yielded = <<>>
    /\ sheet = <<>>
    /\ rowCount = 0
    /\ sinkFirst = TRUE
    /\ BackoffIdle
    /\ BookIdle

ApplyCombinations ==
    /\ call.fn = "generateChunkedOptionsCombinations"
    /\ ~result.done
    /\ result' = [done |-> TRUE,
                  value |-> generateChunkedOptionsCombinations(call.opts,
                                                               call.sizes)]
    /\ UNCHANGED <<call, sessionVars, backoffVars, bookVars>>

ApplyWhere ==
    /\ call.fn = "buildWhereClause"
    /\ ~result.done
    /\ result' = [done |-> TRUE, value |-> buildWhereClause(call.opts)]
    /\ UNCHANGED <<call, sessionVars, backoffVars, bookVars>>

QueryNext == ApplyCombinations \/ ApplyWhere

SpecQuery == QueryInit /\ [][QueryNext]_vars

-----------------------------------------------------------------------------
(* CALC_DELTA (src/unnamed/part_002), the structured report and the        *)
(* free-text report.                                                       *)
(*                                                                         *)
(* Representation.                                                         *)
(*  - A string is the sequence of its pieces. A piece of a cell of a       *)
(*    snapshot is one character (a digit, a letter or the separator "|");  *)
(*    a literal of the code ("Error", "New Row", " -> ", ...) and a header *)
(*    name are one piece each. The empty string is <<>>. Two strings are   *)
(*    equal exactly when their sequences are, because no literal and no    *)
(*    header name is made of cell characters.                              *)
(*  - The arrows and the delta sign of the code are the pieces UpArrow,    *)
(*    DownArrow and Delta; the arrow between the two values is Arrow.      *)
(*  - A grid is a sequence of rows, a row a sequence of cells. The cells   *)
(*    of a snapshot are strings: String(cell) is the cell.                 *)
(*  - A Map and an object are sequences of entries [key, val] in insertion *)
(*    order.                                                               *)
(*  - Numbers stay below 1000, where toLocaleString and String print the   *)
(*    same decimal digits.                                                 *)

TIMESTAMP_COL == "Timestamp"

UpArrow == "(up)"

DownArrow == "(down)"

Delta == "(delta)"

Arrow == " -> "

Digits == <<"0", "1", "2", "3", "4", "5", "6", "7", "8", "9">>

IsDigit(c) == c \in Range(Digits)

DigitValue(c) == CHOOSE d \in 0..9 : Digits[d + 1] = c

\* the number the first n digits of s spell
RECURSIVE NumberTo(_, _)
NumberTo(s, n) ==
    IF n = 0 THEN 0 ELSE 10 * NumberTo(s, n - 1) + DigitValue(s[n])

\* Number(string): the empty string is 0, digits are their number, anything
\* else is NaN
Number(s) ==
    IF \A i \in DOMAIN s : IsDigit(s[i])
    THEN [nan |-> FALSE, n |-> NumberTo(s, Len(s))]
    ELSE [nan |-> TRUE, n |-> 0]

\* String(number) and number.toLocaleString() of a number in 0..999
RECURSIVE NumberToString(_)
NumberToString(n) ==
    IF n < 10 THEN <<Digits[n + 1]>>
    ELSE NumberToString(n \div 10) \o <<Digits[(n % 10) + 1]>>

\* the first n parts joined by sep
RECURSIVE joinTo(_, _, _)
joinTo(parts, sep, n) ==
    IF n = 0 THEN <<>>
    ELSE IF n = 1 THEN parts[1]
    ELSE joinTo(parts, sep, n - 1) \o <<sep>> \o parts[n]

\* Array.prototype.join
join(parts, sep) == joinTo(parts, sep, Len(parts))

\* the split of the first n pieces of s
RECURSIVE splitTo(_, _, _)
splitTo(s, sep, n) ==
    IF n = 0 THEN << <<>> >>
    ELSE LET before == splitTo(s, sep, n - 1)
         IN  IF s[n] = sep
             THEN Append(before, <<>>)
             ELSE [before EXCEPT ![Len(before)] = Append(@, s[n])]

\* String.prototype.split on a one-character separator
split(s, sep) == splitTo(s, sep, Len(s))

\* Array.prototype.includes
Includes(array, x) == \E i \in DOMAIN array : array[i] = x

\* Array.prototype.indexOf, 0-based, -1 when absent
indexOf(array, x) ==
    IF Includes(array, x)
    THEN (CHOOSE i \in DOMAIN array :
              array[i] = x /\ \A j \in 1..(i - 1) : array[j] # x) - 1
    ELSE -1

\* Map.prototype.has and key in object
Has(obj, key) == \E i \in DOMAIN obj : obj[i].key = key

\* Map.prototype.get and obj[key] of a key that is present
Get(obj, key) == obj[CHOOSE i \in DOMAIN obj : obj[i].key = key].val

\* the error rows of the validation
InvalidInputError ==
    << << <<"Error">>,
          <<"Invalid input. Current data, previous data, and headers must be arrays.">> >> >>

EmptyInputError ==
    << << <<"Error">>, <<"One or more input arrays are empty.">> >> >>

InvalidIndexError(headerCount) ==
    << << <<"Error">>,
          <<"Invalid Primary Key index. Must be between 1 and ">>
              \o NumberToString(headerCount) \o <<".">> >> >>

\* [[""]], returned when the report has no body row
NothingChanged == << << <<>> >> >>

\* leftPkIndex as an array: Array.isArray(x) ? x.flat() : [x] (an index
\* array holds numbers, which flat() leaves in place)
leftIndexArray(leftPkIndex) == leftPkIndex.v

\* rightPkIndex without the default: an omitted right key is no key at all
rightIndexArray_noDefault(leftPkIndex, rightPkIndex) == rightPkIndex.v

\* rightPkIndex as an array: a falsy right key (undefined, 0) stands for
\* the left key
rightIndexArray(leftPkIndex, rightPkIndex) ==
    IF \/ rightPkIndex.kind = "null"
       \/ rightPkIndex.kind = "scalar" /\ rightPkIndex.v[1] = 0
    THEN leftIndexArray(leftPkIndex)
    ELSE rightPkIndex.v

\* index - 1 of every index
ZeroBased(indices) == [i \in DOMAIN indices |-> indices[i] - 1]

\* some index is below 0 or at or past the header count
IndexOutOfRange(zeroBased, headerCount) ==
    \E i \in DOMAIN zeroBased :
        zeroBased[i] < 0 \/ zeroBased[i] >= headerCount

\* pkIndicesZeroBased.map((i) => row[i]).join("|")
compositeKey(row, zeroBased) ==
    join([i \in DOMAIN zeroBased |-> row[zeroBased[i] + 1]], "|")

\* the Map of the first n rows when a repeated key keeps its first row
RECURSIVE keyedRowsTo_firstWins(_, _, _)
keyedRowsTo_firstWins(data, zeroBased, n) ==
    IF n = 0 THEN <<>>
    ELSE LET before == keyedRowsTo_firstWins(data, zeroBased, n - 1)
             key == compositeKey(data[n], zeroBased)
         IN  IF \E i \in DOMAIN before : before[i].key = key
             THEN before
             ELSE Append(before, Entry(key, data[n]))

\* new Map(data.map((row) => [key, row])) of the first n rows: a repeated
\* key keeps its first position and takes the last row
RECURSIVE keyedRowsTo(_, _, _)
keyedRowsTo(data, zeroBased, n) ==
    IF n = 0 THEN <<>>
    ELSE SetEntry(keyedRowsTo(data, zeroBased, n - 1),
                  compositeKey(data[n], zeroBased), data[n])

keyedRows(data, zeroBased) == keyedRowsTo(data, zeroBased, Len(data))

\* the change entry of the structured report for two values that differ
structuredChange(previousValue, currentValue) ==
    IF ~Number(currentValue).nan /\ ~Number(previousValue).nan
    THEN <<IF Number(currentValue).n - Number(previousValue).n > 0
           THEN UpArrow ELSE DownArrow, " ">>
             \o NumberToString(Number(previousValue).n) \o <<Arrow>>
             \o NumberToString(Number(currentValue).n)
    ELSE <<Delta, " ">> \o previousValue \o <<Arrow>> \o currentValue

\* a column the structured report leaves out of the comparison
structuredSkips(headers, leftZeroBased, n) ==
    headers[n] = TIMESTAMP_COL \/ Includes(leftZeroBased, n - 1)

\* rowChanges after the first n headers (part_002:96-125)
RECURSIVE rowChangesTo(_, _, _, _, _)
rowChangesTo(headers, leftZeroBased, currentRow, previousRow, n) ==
    IF n = 0 THEN <<>>
    ELSE IF \/ structuredSkips(headers, leftZeroBased, n)
            \/ currentRow[n] = previousRow[n]
    THEN rowChangesTo(headers, leftZeroBased, currentRow, previousRow, n - 1)
    ELSE SetEntry(rowChangesTo(headers, leftZeroBased, currentRow,
                               previousRow, n - 1),
                  headers[n],
                  structuredChange(previousRow[n], currentRow[n]))

rowChanges(headers, leftZeroBased, currentRow, previousRow) ==
    rowChangesTo(headers, leftZeroBased, currentRow, previousRow,
                 Len(headers))

\* currentRowMap after the first n headers (part_002:82-87): the marker,
\* then every header with the row's value
RECURSIVE currentRowMapTo(_, _, _)
currentRowMapTo(headers, currentRow, n) ==
    IF n = 0 THEN <<Entry("New Row", <<"New Row">>)>>
    ELSE SetEntry(currentRowMapTo(headers, currentRow, n - 1),
                  headers[n], currentRow[n])

currentRowMap(headers, currentRow) ==
    currentRowMapTo(headers, currentRow, Len(headers))

\* Set.prototype.add of every key of an object, in order
RECURSIVE addKeysTo(_, _, _)
addKeysTo(set, obj, n) ==
    IF n = 0 THEN set
    ELSE LET before == addKeysTo(set, obj, n - 1)
         IN  IF Includes(before, obj[n].key) THEN before
             ELSE Append(before, obj[n].key)

\* the first pass over the first n entries of currentMap (part_002:77-130):
\* the changed columns and the changes of each reported key
RECURSIVE firstPassTo(_, _, _, _, _)
firstPassTo(currentMap, previousMap, headers, leftZeroBased, n) ==
    IF n = 0 THEN [changedColumns |-> <<>>, changesByRow |-> <<>>]
    ELSE
      LET before == firstPassTo(currentMap, previousMap, headers,
                                leftZeroBased, n - 1)
          pkValue == currentMap[n].key
          currentRow == currentMap[n].val
      IN  IF ~Has(previousMap, pkValue)
          THEN [changedColumns |->
                    IF Includes(before.changedColumns, "New Row")
                    THEN before.changedColumns
                    ELSE Append(before.changedColumns, "New Row"),
                changesByRow |->
                    SetEntry(before.changesByRow, pkValue,
                             currentRowMap(headers, currentRow))]
          ELSE
            LET changes == rowChanges(headers, leftZeroBased, currentRow,
                                      Get(previousMap, pkValue))
            IN  [changedColumns |->
                     addKeysTo(before.changedColumns, changes, Len(changes)),
                 changesByRow |->
                     IF Len(changes) > 0
                     THEN SetEntry(before.changesByRow, pkValue, changes)
                     ELSE before.changesByRow]

\* list with x put where the comparator headers.indexOf(a) -
\* headers.indexOf(b) places it, after its equals
RECURSIVE insertByHeader(_, _, _)
insertByHeader(list, x, headers) ==
    IF list = <<>> THEN <<x>>
    ELSE IF indexOf(headers, x) < indexOf(headers, Head(list))
    THEN <<x>> \o list
    ELSE <<Head(list)>> \o insertByHeader(Tail(list), x, headers)

\* changedColumnsList.sort(...) of the first n columns (part_002:136)
RECURSIVE sortByHeaderTo(_, _, _)
sortByHeaderTo(list, headers, n) ==
    IF n = 0 THEN <<>>
    ELSE insertByHeader(sortByHeaderTo(list, headers, n - 1), list[n],
                        headers)

\* list without its element at 1-based position p
RemoveAt(list, p) ==
    [i \in 1..(Len(list) - 1) |-> IF i < p THEN list[i] ELSE list[i + 1]]

\* the sort without the move of "New Row" to the end
newRowLast_sortOnly(list) == list

\* part_002:139-142: "New Row" is spliced out and pushed
newRowLast(list) ==
    IF Includes(list, "New Row")
    THEN Append(RemoveAt(list, indexOf(list, "New Row") + 1), "New Row")
    ELSE list

\* part_002:133-142
changedColumnsList(changedColumns, headers) ==
    newRowLast(sortByHeaderTo(changedColumns, headers, Len(changedColumns)))

\* changes[column] || ""
ValueOrEmpty(changes, column) ==
    IF Has(changes, column) THEN Get(changes, column) ELSE <<>>

\* the second pass over the first n entries of changesByRow
\* (part_002:152-167): a key with an empty part is passed over
RECURSIVE secondPassTo(_, _, _)
secondPassTo(changesByRow, columns, n) ==
    IF n = 0 THEN <<>>
    ELSE
      LET pkValues == split(changesByRow[n].key, "|")
          changes == changesByRow[n].val
      IN  IF \E i \in DOMAIN pkValues : pkValues[i] = <<>>
          THEN secondPassTo(changesByRow, columns, n - 1)
          ELSE Append(secondPassTo(changesByRow, columns, n - 1),
                      pkValues
                          \o [j \in DOMAIN columns |->
                                ValueOrEmpty(changes, columns[j])])

\* pkHeaders
pkHeaders(headers, leftZeroBased) ==
    [i \in DOMAIN leftZeroBased |-> <<headers[leftZeroBased[i] + 1]>>]

\* the structured report with the two snapshots taken for each other
structuredReport_swapped(currentData, previousData, headers, leftZeroBased, rightZeroBased) ==
    LET currentMap == keyedRows(previousData, rightZeroBased)
        previousMap == keyedRows(currentData, leftZeroBased)
        pass == firstPassTo(currentMap, previousMap, headers, leftZeroBased,
                            Len(currentMap))
        columns == changedColumnsList(pass.changedColumns, headers)
    IN  <<pkHeaders(headers, leftZeroBased)
              \o [j \in DOMAIN columns |-> <<columns[j]>>]>>
            \o secondPassTo(pass.changesByRow, columns,
                            Len(pass.changesByRow))

\* the report of the structured CALC_DELTA once the inputs are validated
\* (part_002:58-169)
structuredReport(currentData, previousData, headers, leftZeroBased, rightZeroBased) ==
    LET currentMap == keyedRows(currentData, leftZeroBased)
        previousMap == keyedRows(previousData, rightZeroBased)
        pass == firstPassTo(currentMap, previousMap, headers, leftZeroBased,
                            Len(currentMap))
        columns == changedColumnsList(pass.changedColumns, headers)
    IN  <<pkHeaders(headers, leftZeroBased)
              \o [j \in DOMAIN columns |-> <<columns[j]>>]>>
            \o secondPassTo(pass.changesByRow, columns,
                            Len(pass.changesByRow))

\* the array arguments are arrays (part_002:14-18, 183-187)
AreArrays(currentData, previousData, headers) ==
    /\ currentData.kind = "array"
    /\ previousData.kind = "array"
    /\ headers.kind = "array"

\* the emptiness test without the previous snapshot
SomeEmpty_currentOnly(currentData, previousData, flatHeaders) ==
    Len(currentData) = 0 \/ Len(flatHeaders) = 0

\* part_002:29, 198
SomeEmpty(currentData, previousData, flatHeaders) ==
    Len(currentData) = 0 \/ Len(previousData) = 0 \/ Len(flatHeaders) = 0

\* the validation both CALC_DELTA share (part_002:14-56, 183-225): the
\* error row, or <<>> when the inputs pass
validationError(currentData, previousData, headers, leftPkIndex, rightPkIndex) ==
    IF ~AreArrays(currentData, previousData, headers)
    THEN InvalidInputError
    ELSE IF SomeEmpty(currentData.v, previousData.v, Flatten(headers.v))
    THEN EmptyInputError
    ELSE IF \/ IndexOutOfRange(ZeroBased(leftIndexArray(leftPkIndex)),
                               Len(Flatten(headers.v)))
            \/ IndexOutOfRange(
                   ZeroBased(rightIndexArray(leftPkIndex, rightPkIndex)),
                   Len(Flatten(headers.v)))
    THEN InvalidIndexError(Len(Flatten(headers.v)))
    ELSE <<>>

\* output.length > 1 ? output : [[""]]
reportOrSentinel(output) ==
    IF Len(output) > 1 THEN output ELSE NothingChanged

\* CALC_DELTA of part_002:13-170, one column per changed field
CALC_DELTA_structured(currentData, previousData, headers, leftPkIndex, rightPkIndex) ==
    IF validationError(currentData, previousData, headers, leftPkIndex,
                       rightPkIndex) # <<>>
    THEN validationError(currentData, previousData, headers, leftPkIndex,
                         rightPkIndex)
    ELSE reportOrSentinel(
             structuredReport(
                 currentData.v, previousData.v, Flatten(headers.v),
                 ZeroBased(leftIndexArray(leftPkIndex)),
                 ZeroBased(rightIndexArray(leftPkIndex, rightPkIndex))))

\* the change entry of the free-text report for two values that differ
freeTextChange(header, previousValue, currentValue) ==
    IF ~Number(currentValue).nan /\ ~Number(previousValue).nan
    THEN <<IF Number(currentValue).n - Number(previousValue).n > 0
           THEN UpArrow
           ELSE IF Number(currentValue).n - Number(previousValue).n < 0
           THEN DownArrow ELSE Delta,
           " ", header, ": ">>
             \o previousValue \o <<Arrow>> \o currentValue
    ELSE <<Delta, " ", header, ": ">>
             \o previousValue \o <<Arrow>> \o currentValue

\* a column the free-text report leaves out of the comparison
freeTextSkips(headers, leftZeroBased, n) == Includes(leftZeroBased, n - 1)

\* changes after the first n headers (part_002:259-279)
RECURSIVE freeTextChangesTo(_, _, _, _, _)
freeTextChangesTo(headers, leftZeroBased, currentRow, previousRow, n) ==
    IF n = 0 THEN <<>>
    ELSE IF \/ freeTextSkips(headers, leftZeroBased, n)
            \/ currentRow[n] = previousRow[n]
    THEN freeTextChangesTo(headers, leftZeroBased, currentRow, previousRow,
                           n - 1)
    ELSE Append(freeTextChangesTo(headers, leftZeroBased, currentRow,
                                  previousRow, n - 1),
                freeTextChange(headers[n], previousRow[n], currentRow[n]))

\* the body rows as the earlier CALC_DELTA builds them: a key with no
\* previous row is passed over
RECURSIVE freeTextRowsTo_skipNew(_, _, _, _, _)
freeTextRowsTo_skipNew(currentMap, previousMap, headers, leftZeroBased, n) ==
    IF n = 0 THEN <<>>
    ELSE
      LET before == freeTextRowsTo_skipNew(currentMap, previousMap, headers,
                                           leftZeroBased, n - 1)
          pkValue == currentMap[n].key
          pkValues == split(pkValue, "|")
      IN  IF ~Has(previousMap, pkValue)
          THEN before
          ELSE
            LET changes == freeTextChangesTo(headers, leftZeroBased,
                                             currentMap[n].val,
                                             Get(previousMap, pkValue),
                                             Len(headers))
            IN  IF Len(changes) = 0 THEN before
                ELSE Append(before, pkValues \o <<join(changes, "\n")>>)

\* the body rows for the first n entries of currentMap (part_002:248-287)
RECURSIVE freeTextRowsTo(_, _, _, _, _)
freeTextRowsTo(currentMap, previousMap, headers, leftZeroBased, n) ==
    IF n = 0 THEN <<>>
    ELSE
      LET before == freeTextRowsTo(currentMap, previousMap, headers,
                                   leftZeroBased, n - 1)
          pkValue == currentMap[n].key
          pkValues == split(pkValue, "|")
      IN  IF ~Has(previousMap, pkValue)
          THEN Append(before, pkValues \o << <<"New row">> >>)
          ELSE
            LET changes == freeTextChangesTo(headers, leftZeroBased,
                                             currentMap[n].val,
                                             Get(previousMap, pkValue),
                                             Len(headers))
            IN  IF Len(changes) = 0 THEN before
                ELSE Append(before, pkValues \o <<join(changes, "\n")>>)

\* the free-text report with the previous snapshot keyed by the left key
freeTextReport_leftKeyOnly(currentData, previousData, headers, leftZeroBased, rightZeroBased) ==
    LET currentMap == keyedRows(currentData, leftZeroBased)
        previousMap == keyedRows(previousData, leftZeroBased)
    IN  <<pkHeaders(headers, leftZeroBased) \o << <<"Changes">> >> >>
            \o freeTextRowsTo(currentMap, previousMap, headers,
                              leftZeroBased, Len(currentMap))

\* the report of the free-text CALC_DELTA once the inputs are validated
\* (part_002:227-287)
freeTextReport(currentData, previousData, headers, leftZeroBased, rightZeroBased) ==
    LET currentMap == keyedRows(currentData, leftZeroBased)
        previousMap == keyedRows(previousData, rightZeroBased)
    IN  <<pkHeaders(headers, leftZeroBased) \o << <<"Changes">> >> >>
            \o freeTextRowsTo(currentMap, previousMap, headers,
                              leftZeroBased, Len(currentMap))

\* CALC_DELTA of part_002:182-290, one "Changes" column
CALC_DELTA_freeText(currentData, previousData, headers, leftPkIndex, rightPkIndex) ==
    IF validationError(currentData, previousData, headers, leftPkIndex,
                       rightPkIndex) # <<>>
    THEN validationError(currentData, previousData, headers, leftPkIndex,
                         rightPkIndex)
    ELSE reportOrSentinel(
             freeTextReport(
                 currentData.v, previousData.v, Flatten(headers.v),
                 ZeroBased(leftIndexArray(leftPkIndex)),
                 ZeroBased(rightIndexArray(leftPkIndex, rightPkIndex))))

-----------------------------------------------------------------------------
(* CALC_DELTA applied to bounded inputs                                    *)

\* a cell: the string of the given characters
Str1(c) == <<c>>

DeltaHeaders == <<"id", "name", "amount", "Timestamp">>

\* the same columns with the second one named like the indicator column
MarkerHeaders == <<"id", "New Row", "amount", "Timestamp">>

\* rows of a current snapshot: unchanged against PreviousRows, a greater
\* amount, a later timestamp only, another name, a new key, a blank key
CurrentRows ==
    {<<Str1("a"), Str1("n"), Str1("1"), Str1("t")>>,
     <<Str1("a"), Str1("n"), Str1("2"), Str1("t")>>,
     <<Str1("a"), Str1("n"), Str1("1"), Str1("u")>>,
     <<Str1("b"), Str1("m"), Str1("2"), Str1("t")>>,
     <<Str1("d"), Str1("n"), Str1("1"), Str1("t")>>,
     <<<<>>, Str1("n"), Str1("1"), Str1("t")>>}

PreviousRows ==
    {<<Str1("a"), Str1("n"), Str1("1"), Str1("t")>>,
     <<Str1("b"), Str1("n"), Str1("2"), Str1("t")>>,
     <<Str1("c"), Str1("n"), Str1("1"), Str1("t")>>}

\* key arguments that pass the validation: left key, right key
ValidKeys ==
    {<<Scalar(1), Null>>, <<Arr(<<1>>), Arr(<<1>>)>>,
     <<Arr(<<1, 2>>), Null>>, <<Arr(<<1, 2>>), Arr(<<1, 2>>)>>,
     <<Arr(<<1>>), Arr(<<2>>)>>, <<Scalar(1), Scalar(0)>>}

\* key arguments with an index outside 1..4, on the left or on the right
InvalidKeys ==
    {<<Scalar(0), Null>>, <<Arr(<<1, 5>>), Null>>, <<Scalar(1), Arr(<<0>>)>>,
     <<Scalar(1), Scalar(5)>>, <<Arr(<<1>>), Arr(<<2, 5>>)>>}

DeltaFunctions == {"CALC_DELTA_structured", "CALC_DELTA_freeText"}

DeltaCall(fn, c, p, h, keys) ==
    [fn |-> fn, currentData |-> c, previousData |-> p, headers |-> h,
     leftPkIndex |-> keys[1], rightPkIndex |-> keys[2]]

\* snapshots compared under every valid key layout
DiffCall ==
    \E fn \in DeltaFunctions, keys \in ValidKeys :
        \E c \in SeqsUpTo(CurrentRows, MaxSnapshot),
           p \in SeqsUpTo(PreviousRows, MaxSnapshot) :
            call = DeltaCall(fn, Arr(c), Arr(p), Arr(<<DeltaHeaders>>), keys)

\* the same snapshots under headers that use the name "New Row"
MarkerCall ==
    \E fn \in DeltaFunctions :
        \E c \in SeqsUpTo(CurrentRows, MaxSnapshot),
           p \in SeqsUpTo(PreviousRows, MaxSnapshot) :
            call = DeltaCall(fn, Arr(c), Arr(p), Arr(<<MarkerHeaders>>),
                             <<Scalar(1), Null>>)

\* one snapshot handed over as current and as previous, keyed by its first
\* column
IdenticalCall ==
    \E fn \in DeltaFunctions, h \in {DeltaHeaders, MarkerHeaders},
       keys \in {<<Arr(<<1>>), Null>>, <<Scalar(1), Null>>} :
        \E s \in SeqsUpTo(CurrentRows \cup PreviousRows, MaxSnapshot) :
            call = DeltaCall(fn, Arr(s), Arr(s), Arr(<<h>>), keys)

\* calls on rows chosen for one case each
RowCaseCall ==
    \E fn \in DeltaFunctions :
        \* one row of key "a" in each snapshot, the amount on either side
        \* empty, a numeral (one with a leading zero) or a word
        \/ LET cells == {<<>>, <<"0">>, <<"1">>, <<"0", "1">>, <<"2">>,
                         <<"x">>}
           IN  \E c \in cells, p \in cells :
                   call = DeltaCall(fn,
                              Arr(<< <<Str1("a"), Str1("n"), c, Str1("t")>> >>),
                              Arr(<< <<Str1("a"), Str1("n"), p, Str1("t")>> >>),
                              Arr(<<DeltaHeaders>>), <<Scalar(1), Null>>)
        \* one or two rows on either side that share the key "a" and differ
        \* in the amount or the timestamp
        \/ LET rows == {<<Str1("a"), Str1("n"), Str1("1"), Str1("t")>>,
                        <<Str1("a"), Str1("n"), Str1("2"), Str1("t")>>,
                        <<Str1("a"), Str1("n"), Str1("1"), Str1("u")>>}
           IN  \E c \in SeqsUpTo(rows, 2), p \in SeqsUpTo(rows, 2) :
                   /\ c # <<>>
                   /\ p # <<>>
                   /\ call = DeltaCall(fn, Arr(c), Arr(p),
                                       Arr(<<DeltaHeaders>>),
                                       <<Scalar(1), Null>>)
        \* the current snapshot keyed by its first column, the previous one
        \* by its second, which carries keys of the current snapshot
        \/ LET rows == {<<Str1("x"), Str1("a"), Str1("1"), Str1("t")>>,
                        <<Str1("y"), Str1("a"), Str1("2"), Str1("t")>>,
                        <<Str1("x"), Str1("b"), Str1("2"), Str1("t")>>}
           IN  \E c \in SeqsUpTo(CurrentRows, 2), p \in SeqsUpTo(rows, 2) :
                   /\ c # <<>>
                   /\ p # <<>>
                   /\ call = DeltaCall(fn, Arr(c), Arr(p),
                                       Arr(<<DeltaHeaders>>),
                                       <<Arr(<<1>>), Arr(<<2>>)>>)
        \* a key cell that holds the separator of composite keys, "a|b",
        \* against the same key or another one in the previous snapshot
        \/ LET pipeKey == <<"a", "|", "b">>
           IN  \E c \in {Str1("1"), Str1("2")}, k \in {pipeKey, Str1("c")} :
                   call = DeltaCall(fn,
                              Arr(<< <<pipeKey, Str1("n"), c, Str1("t")>> >>),
                              Arr(<< <<k, Str1("n"), Str1("1"), Str1("t")>> >>),
                              Arr(<<DeltaHeaders>>), <<Scalar(1), Null>>)

\* arguments the validation is about: a bare cell instead of a range, an
\* empty range, headers as a range of no cell, an index out of range
GridInputs ==
    {Scalar(Str1("a")), Arr(<<>>),
     Arr(<< <<Str1("a"), Str1("n"), Str1("1"), Str1("t")>> >>)}

HeaderInputs ==
    {Scalar("id"), Arr(<<>>), Arr(<< <<>> >>), Arr(<<DeltaHeaders>>)}

ValidationCall ==
    \E fn \in DeltaFunctions, c \in GridInputs, p \in GridInputs,
       h \in HeaderInputs, keys \in InvalidKeys \cup {<<Scalar(1), Null>>} :
        call = DeltaCall(fn, c, p, h, keys)

DeltaInit ==
    /\ \/ DiffCall \/ MarkerCall \/ IdenticalCall \/ ValidationCall
       \/ RowCaseCall
    /\ result = NoResult
    /\ viewName = ""
    /\ options = <<>>
    /\ remote = <<>>
    /\ pc = "differ"
    /\ combos = <<>>
    /\ ci = 0
    /\ offset = 0
    /\ isFirstChunk = TRUE
    /\ chunk = <<>>
    /\ requests = <<>>
    /\ yielded = <<>>
    /\ sheet = <<>>
    /\ rowCount = 0
    /\ sinkFirst = TRUE
    /\ BackoffIdle
    /\ BookIdle

ApplyStructured ==
    /\ call.fn = "CALC_DELTA_structured"
    /\ ~result.done
    /\ result' = [done |-> TRUE,
                  value |-> CALC_DELTA_structured(
                                call.currentData, call.previousData,
                                call.headers, call.leftPkIndex,
                                call.rightPkIndex)]
    /\ UNCHANGED <<call, sessionVars, backoffVars, bookVars>>

ApplyFreeText ==
    /\ call.fn = "CALC_DELTA_freeText"
    /\ ~result.done
    /\ result' = [done |-> TRUE,
                  value |-> CALC_DELTA_freeText(
                                call.currentData, call.previousData,
                                call.headers, call.leftPkIndex,
                                call.rightPkIndex)]
    /\ UNCHANGED <<call, sessionVars, backoffVars, bookVars>>

DeltaNext == ApplyStructured \/ ApplyFreeText

SpecDelta == DeltaInit /\ [][DeltaNext]_vars

-----------------------------------------------------------------------------
(* withExponentialBackoff (src/src/utils.ts)                               *)
(*                                                                         *)
(* An option left out of the options object is Null and takes its default. *)
(* The operation is the environment: each invocation either returns a      *)
(* value or throws an error with a message. shouldRetry is absent, a       *)
(* predicate that rejects every error ("never") or one that accepts the    *)
(* errors whose message is "transient".                                    *)

DefaultMaxAttempts == 5

DefaultInitialDelayMs == 1000

DefaultMaxDelayMs == 32000

\* a destructured option with its default
OptionOr(option, default) ==
    IF option.kind = "null" THEN default ELSE option.v[1]

maxAttemptsOf(opts) == OptionOr(opts.maxAttempts, DefaultMaxAttempts)

initialDelayMsOf(opts) == OptionOr(opts.initialDelayMs, DefaultInitialDelayMs)

maxDelayMsOf(opts) == OptionOr(opts.maxDelayMs, DefaultMaxDelayMs)

\* shouldRetry(error); the default accepts every error
shouldRetry(opts, message) ==
    \/ opts.shouldRetry.kind = "null"
    \/ opts.shouldRetry = Scalar("transient") /\ message = "transient"

\* the test that gives up one attempt late
GivesUp_oneMore(n, opts, message) ==
    n > maxAttemptsOf(opts) \/ ~shouldRetry(opts, message)

\* attempts === maxAttempts || !shouldRetry(error)
GivesUp(n, opts, message) ==
    n = maxAttemptsOf(opts) \/ ~shouldRetry(opts, message)

\* `Operation failed after ${attempts} attempts: ${error.message}`
FailureMessage(n, message) ==
    <<"Operation failed after ">> \o NumberToString(n)
        \o <<" attempts: ", message>>

BackoffOptions ==
    [maxAttempts : {Null} \cup {Scalar(n) : n \in -1..MaxAttemptsOption},
     initialDelayMs : {Null, Scalar(1), Scalar(3)},
     maxDelayMs : {Null, Scalar(4)},
     shouldRetry : {Null, Scalar("never"), Scalar("transient")}]

BackoffInit ==
    /\ call \in {[fn |-> "withExponentialBackoff", options |-> o] :
                    o \in BackoffOptions}
    /\ result = NoResult
    /\ attempts = 0
    /\ delay = initialDelayMsOf(call.options)
    /\ invocations = <<>>
    /\ slept = <<>>
    /\ viewName = ""
    /\ options = <<>>
    /\ remote = <<>>
    /\ pc = "backoff"
    /\ combos = <<>>
    /\ ci = 0
    /\ offset = 0
    /\ isFirstChunk = TRUE
    /\ chunk = <<>>
    /\ requests = <<>>
    /\ yielded = <<>>
    /\ sheet = <<>>
    /\ rowCount = 0
    /\ sinkFirst = TRUE
    /\ BookIdle

\* an iteration of the loop in which operation() returns (utils.ts:143-146)
OperationReturns(value) ==
    /\ pc = "backoff"
    /\ attempts < maxAttemptsOf(call.options)
    /\ attempts' = attempts + 1
    /\ invocations' = Append(invocations, [ok |-> TRUE, text |-> value])
    /\ result' = [done |-> TRUE, value |-> value]
    /\ pc' = "returned"
    /\ UNCHANGED <<call, sessionVars_but_pc, delay, slept, bookVars>>

\* an iteration of the loop in which operation() throws (utils.ts:143-164)
OperationThrows(message) ==
    /\ pc = "backoff"
    /\ attempts < maxAttemptsOf(call.options)
    /\ attempts' = attempts + 1
    /\ invocations' = Append(invocations,
                             [ok |-> FALSE, text |-> <<message>>])
    /\ IF GivesUp(attempts + 1, call.options, message)
       THEN /\ result' = [done |-> TRUE,
                          value |-> FailureMessage(attempts + 1, message)]
            /\ pc' = "thrown"
            /\ UNCHANGED <<delay, slept>>
       ELSE /\ slept' = Append(slept, delay)
            /\ delay' = Min(delay * 2, maxDelayMsOf(call.options))
            /\ UNCHANGED <<result, pc>>
    /\ UNCHANGED <<call, sessionVars_but_pc, bookVars>>

\* the loop condition fails and the function ends without a return
\* statement (utils.ts:143, 165-166): the caller gets undefined
LoopEnds ==
    /\ pc = "backoff"
    /\ ~(attempts < maxAttemptsOf(call.options))
    /\ result' = [done |-> TRUE, value |-> <<>>]
    /\ pc' = "returned"
    /\ UNCHANGED <<call, sessionVars_but_pc, backoffVars, bookVars>>

BackoffNext ==
    \/ \E value \in {<<"response">>} : OperationReturns(value)
    \/ \E message \in {"transient", "permanent"} : OperationThrows(message)
    \/ LoopEnds

SpecBackoff == BackoffInit /\ [][BackoffNext]_vars

-----------------------------------------------------------------------------
(* downloadUSACDataAndDelta (src/src/running-delta.ts) on a workbook of    *)
(* five sheets: current (the variable sheet), previous, running, changes,  *)
(* running changes.                                                        *)
(*                                                                         *)
(* A sheet is the sequence of its rows, <<>> when it holds nothing; a cell *)
(* is a string of pieces as in CALC_DELTA, the empty cell is <<>>.         *)

MaxRuns == 3

\* sheet.getDataRange().getValues(): a sheet that holds nothing gives one
\* row of one empty cell
getValues(sh) == IF sh = <<>> THEN << << <<>> >> >> ELSE sh

\* values != null && values.length > 0 && values[0][0] !== ""
FirstCellGiven(values) == Len(values) > 0 /\ values[1][1] # <<>>

\* Utilities.formatDate(now, zone, "yyyy-MM-dd")
currentDateOf(d) == <<"d">> \o NumberToString(d)

\* Utilities.formatDate(now, zone, "yyyy-MM-dd HH:mm"); run n of the
\* script happens at the n-th minute
dateTimeStringOf(d, n) == currentDateOf(d) \o <<" ", "t">> \o NumberToString(n)

\* the rows among the first n that clearCurrentDayData keeps: the header
\* row and every row whose timestamp is not of dateToMatch
RECURSIVE keptRowsTo(_, _, _, _)
keptRowsTo(values, timestampColIndex, dateToMatch, n) ==
    IF n = 0 THEN <<>>
    ELSE LET before == keptRowsTo(values, timestampColIndex, dateToMatch,
                                  n - 1)
         IN  IF n > 1 /\ split(values[n][timestampColIndex + 1], " ")[1]
                             = dateToMatch
             THEN before
             ELSE Append(before, values[n])

\* running-delta.ts:75-100
clearCurrentDayData(sh, dateToMatch) ==
    LET values == getValues(sh)
        timestampColIndex == indexOf(values[1], <<TIMESTAMP_COL>>)
    IN  IF Len(values) <= 1 THEN sh
        ELSE IF timestampColIndex = -1 THEN sh
        ELSE keptRowsTo(values, timestampColIndex, dateToMatch, Len(values))

\* running-delta.ts:108-131: the sheet afterwards (getLastRow() is the
\* number of its rows), and whether the call threw (dataWithTimestamp[0]
\* is undefined when data has one row)
appendToAllSheet(allSh, data, dateTimeString) ==
    LET headers == data[1]
        pushed == Append(headers, <<TIMESTAMP_COL>>)
        \* getRange(1, 1, 1, headers.length).setValues([headers]): the
        \* cells of row 1 past headers.length stay as they are
        withHeader ==
            IF Includes(headers, <<TIMESTAMP_COL>>) THEN allSh
            ELSE IF allSh = <<>> THEN <<pushed>>
            ELSE [allSh EXCEPT ![1] =
                     pushed \o SubSeq(@, Len(pushed) + 1, Len(@))]
        dataWithTimestamp ==
            [i \in 1..(Len(data) - 1) |-> Append(data[i + 1], dateTimeString)]
    IN  IF dataWithTimestamp = <<>>
        THEN [sheet |-> withHeader, threw |-> TRUE]
        ELSE [sheet |-> setValues(withHeader, Len(withHeader) + 1,
                                  dataWithTimestamp),
              threw |-> FALSE]

\* the current sheet after downloadAndPopulateUSACData (download.ts:527-568):
\* cleared and left empty when the stream yields nothing (no record, or a
\* failed first request), the header row and the records otherwise
DownloadedGrids ==
    LET header == <<Str1("id"), Str1("amount")>>
    IN  {<<>>,
         <<header, <<Str1("a"), Str1("1")>> >>,
         <<header, <<Str1("a"), Str1("2")>>, <<Str1("b"), Str1("1")>> >>}

\* what the changes sheet shows, its cells being computed by CALC_DELTA:
\* the single empty cell, an error row, a report of one body row
DeltaGrids ==
    {<<>>,
     EmptyInputError,
     << <<Str1("id"), Str1("amount")>>,
        <<Str1("a"), <<UpArrow, " ", "1", Arrow, "2">> >> >>}

BookInit ==
    /\ call = [fn |-> "downloadUSACDataAndDelta"]
    /\ result = NoResult
    /\ sheet = <<>>
    /\ previousSheet = <<>>
    /\ allSheet = <<>>
    /\ deltaSheet \in DeltaGrids
    /\ allDeltaSheet = <<>>
    /\ day = 1
    /\ runs = 0
    /\ pc = "book"
    /\ viewName = ""
    /\ options = <<>>
    /\ remote = <<>>
    /\ combos = <<>>
    /\ ci = 0
    /\ offset = 0
    /\ isFirstChunk = TRUE
    /\ chunk = <<>>
    /\ requests = <<>>
    /\ yielded = <<>>
    /\ rowCount = 0
    /\ sinkFirst = TRUE
    /\ BackoffIdle

\* one run of downloadUSACDataAndDelta (running-delta.ts:5-68), the
\* download leaving the current sheet as `downloaded`
RunDownload(downloaded) ==
    /\ pc = "book"
    /\ runs < MaxRuns
    /\ runs' = runs + 1
    /\ LET dateTimeString == dateTimeStringOf(day, runs + 1)
           cleared == clearCurrentDayData(allSheet, currentDateOf(day))
           currentDeltaValues == getValues(deltaSheet)
           deltaAppended ==
               IF FirstCellGiven(currentDeltaValues)
               THEN appendToAllSheet(allDeltaSheet, currentDeltaValues,
                                     dateTimeString)
               ELSE [sheet |-> allDeltaSheet, threw |-> FALSE]
           currentValues == getValues(sheet)
           appended ==
               IF FirstCellGiven(currentValues)
               THEN appendToAllSheet(cleared, currentValues, dateTimeString)
               ELSE [sheet |-> cleared, threw |-> FALSE]
       IN  /\ allDeltaSheet' = deltaAppended.sheet
           /\ IF deltaAppended.threw
              THEN /\ allSheet' = cleared
                   /\ result' = [done |-> TRUE, value |-> <<"TypeError">>]
                   /\ UNCHANGED <<sheet, previousSheet>>
              ELSE IF appended.threw
              THEN /\ previousSheet' = currentValues
                   /\ allSheet' = appended.sheet
                   /\ result' = [done |-> TRUE, value |-> <<"TypeError">>]
                   /\ UNCHANGED sheet
              ELSE /\ previousSheet' = IF FirstCellGiven(currentValues)
                                       THEN currentValues
                                       ELSE previousSheet
                   /\ allSheet' = appended.sheet
                   /\ sheet' = downloaded
                   /\ result' = [done |-> TRUE, value |-> <<"ok">>]
    /\ UNCHANGED <<call, viewName, options, remote, pc, combos, ci, offset,
                   isFirstChunk, chunk, requests, yielded, rowCount,
                   sinkFirst, backoffVars, deltaSheet, day>>

\* midnight passes between two runs
NextDay ==
    /\ pc = "book"
    /\ day <= runs
    /\ day' = day + 1
    /\ UNCHANGED <<call, result, sessionVars, backoffVars, previousSheet,
                   allSheet, deltaSheet, allDeltaSheet, runs>>

\* the spreadsheet recomputes the changes sheet
Recalculate(grid) ==
    /\ pc = "book"
    /\ deltaSheet # grid
    /\ deltaSheet' = grid
    /\ UNCHANGED <<call, result, sessionVars, backoffVars, previousSheet,
                   allSheet, allDeltaSheet, day, runs>>

BookNext ==
    \/ \E downloaded \in DownloadedGrids : RunDownload(downloaded)
    \/ NextDay
    \/ \E grid \in DeltaGrids : Recalculate(grid)

SpecBook == BookInit /\ [][BookNext]_vars

-----------------------------------------------------------------------------
(* Properties of a fetch session                                           *)

\* a batch without its header line
DropHeader(b) == IF b # <<>> /\ Head(b) = Header THEN Tail(b) ELSE b

\* all yielded batches concatenated, the header dropped from every batch
\* but the first
Concatenated ==
    Flatten([i \in 1..Len(yielded) |->
                IF i = 1 THEN yielded[i].batch ELSE DropHeader(yielded[i].batch)])

\* the records among them
DataRows == DropHeader(Concatenated)

\* the records the remote returns for the full unchunked query
FullQuery == SelectRows(remote, mapOptions(options, viewName))

\* the records the remote returns for each combination's query, in the
\* order of the combinations
PerCombination ==
    Flatten([c \in 1..Len(combos) |->
                SelectRows(remote, mapOptions(combos[c], viewName))])

NoRepeats(s) == \A i, j \in DOMAIN s : s[i] = s[j] => i = j

\* every dimension that is split into several chunks lists distinct values
\* and is a column of the view
ExclusiveCombinations ==
    \A k \in DOMAIN options :
        Len(chunkedOptionsOf(options, OPTIONS_CHUNK_SIZES)[k]) > 1
            => /\ NoRepeats(options[k].val.v)
               /\ mapOptions(<<options[k]>>, viewName) # <<>>

C2_SheetHoldsEveryRow == pc = "done" => sheet = Concatenated

\* the response to request r held only the header line
HeaderOnly(r) == r.status = 200 /\ r.records = 0

LastRequest(rs) == rs[Len(rs)]

\* C4: the requests walk the combinations in the order
\* generateChunkedOptionsCombinations produced them: the first request is for
\* the first combination, a request for the next combination follows only
\* the header-only response of the one before, and a session that has ended
\* has fetched every combination to its header-only response
C4_SequentialCombinations ==
    /\ \A i \in DOMAIN requests :
          /\ requests[i].ci \in 1..Len(combos)
          /\ requests[i].where =
                 buildWhereClause(mapOptions(
                     generateChunkedOptionsCombinations(
                         options, OPTIONS_CHUNK_SIZES)[requests[i].ci],
                     viewName))
          /\ i = 1 => requests[i].ci = 1
          /\ i > 1 => \/ requests[i].ci = requests[i - 1].ci
                      \/ /\ requests[i].ci = requests[i - 1].ci + 1
                         /\ HeaderOnly(requests[i - 1])
    /\ pc = "done" =>
          \A c \in 1..Len(combos) :
              \E i \in DOMAIN requests :
                  requests[i].ci = c /\ HeaderOnly(requests[i])

C4_Witness ==
    /\ pc = "done"
    /\ Len(combos) = 2
    /\ \E i, j \in DOMAIN yielded : yielded[i].ci = 1 /\ yielded[j].ci = 2

HasHeader(b) == Header \in Range(b)

\* C5 as stated: the batch of the first page of the first combination
\* starts with the header and the batch of any other page or combination
\* does not contain it
C5_AsStated ==
    \A i \in DOMAIN yielded :
        IF yielded[i].ci = 1 /\ yielded[i].offset = 0
        THEN Head(yielded[i].batch) = Header
        ELSE ~HasHeader(yielded[i].batch)

\* C5: the first batch yielded in the session, whichever combination and
\* page it comes from, starts with the header and holds it once; no later
\* batch contains it
C5_HeaderOnFirstBatchOnly ==
    \A i \in DOMAIN yielded :
        IF i = 1
        THEN /\ Head(yielded[i].batch) = Header
             /\ ~HasHeader(Tail(yielded[i].batch))
        ELSE ~HasHeader(yielded[i].batch)

C5_Witness ==
    /\ Len(yielded) >= 2
    /\ yielded[1].ci = 2
    /\ Head(yielded[1].batch) = Header

\* C6: a header-only response yields no batch and ends its combination:
\* the step that receives it leaves the yielded batches as they are and
\* moves to offset 0 of the next combination, or ends the session after the
\* last one, and no later request is for the same combination
C6_HeaderOnlyEndsCombination ==
    /\ [](\A i, j \in DOMAIN requests :
            (i < j /\ HeaderOnly(requests[i]))
                => requests[j].ci > requests[i].ci)
    /\ [][(Len(requests') = Len(requests) + 1
             /\ HeaderOnly(LastRequest(requests')))
            => /\ yielded' = yielded
               /\ chunk' = chunk
               /\ sheet' = sheet
               /\ ci' = ci + 1
               /\ offset' = 0
               /\ pc' = IF ci = Len(combos) THEN "done" ELSE "running"]_vars

C6_Witness ==
    /\ pc = "running"
    /\ ci = 2
    /\ Len(yielded) >= 1
    /\ HeaderOnly(LastRequest(requests))

\* C7: a response with a status other than 200 fails the session in the
\* step that receives it, yielding and writing nothing; the failed request
\* is the last one of the session, and a failed session takes no further
\* step
C7_FailureEndsSession ==
    /\ [](\A i \in DOMAIN requests :
            requests[i].status # 200 => (i = Len(requests) /\ pc = "failed"))
    /\ [][(Len(requests') = Len(requests) + 1
             /\ LastRequest(requests').status # 200)
            => /\ pc' = "failed"
               /\ yielded' = yielded
               /\ chunk' = chunk
               /\ sheet' = sheet]_vars
    /\ [][pc = "failed" => UNCHANGED vars]_vars

C7_Witness ==
    /\ pc = "failed"
    /\ Len(requests) >= 3
    /\ Len(yielded) >= 1
    /\ LastRequest(requests).status = 500

RECURSIVE SumOver(_, _)
SumOver(f, n) == IF n = 0 THEN 0 ELSE f[n] + SumOver(f, n - 1)

\* requests that a combination matching n records takes: its pages and the
\* header-only response after them
RequestsFor(n) == ((n + CHUNK_SIZE - 1) \div CHUNK_SIZE) + 1

RequestBudget ==
    SumOver([c \in 1..Len(combos) |->
                RequestsFor(Len(SelectRows(remote,
                                           mapOptions(combos[c], viewName))))],
            Len(combos))

\* C8: against a remote that answers every request with status 200, and a
\* header-only page once the offset has reached the number of matching
\* records, a session of a known view never issues more requests than its
\* combinations have pages (one header-only response each included) and
\* eventually ends
C8_SessionTerminates ==
    /\ [](Len(requests) <= RequestBudget)
    /\ (viewName \in ViewIDs) => <>(pc = "done")

C8_Witness ==
    /\ pc = "done"
    /\ Len(combos) = 2
    /\ Len(requests) >= 4
    /\ Len(requests) = RequestBudget

\* the requests and the yielded batches of combination c, in order
RequestsOf(c) == SelectSeq(requests, LAMBDA r : r.ci = c)

BatchesOf(c) == SelectSeq(yielded, LAMBDA y : y.ci = c)

\* the number of records the query of combination c matches
Matching(c) == Len(SelectRows(remote, mapOptions(combos[c], viewName)))

\* the least number of pages of CHUNK_SIZE records that hold n records
PagesFor(n) ==
    CHOOSE q \in 0..n : q * CHUNK_SIZE >= n /\ (q - 1) * CHUNK_SIZE < n

\* C29: within one combination the requested offsets are 0, P, 2P, ...
\* with P = CHUNK_SIZE, each once; a request follows another one of the
\* same combination only when that one brought records, and a page that
\* brought records (a short one too) is yielded; a combination that
\* matches n records and has been fetched to its header-only response has
\* cost ceil(n/P) + 1 requests and yielded ceil(n/P) batches
C29_PagesAndOneEmptyResponse ==
    \A c \in 1..Len(combos) :
        LET rs == RequestsOf(c)
            ys == BatchesOf(c)
        IN  /\ \A k \in DOMAIN rs :
                  /\ rs[k].offset = (k - 1) * CHUNK_SIZE
                  /\ k < Len(rs) => rs[k].status = 200 /\ rs[k].records >= 1
                  /\ (rs[k].status = 200 /\ rs[k].records >= 1) =>
                        /\ k <= Len(ys)
                        /\ ys[k].offset = rs[k].offset
                        /\ Len(DropHeader(ys[k].batch)) = rs[k].records
            /\ (rs # <<>> /\ HeaderOnly(LastRequest(rs))) =>
                  /\ Len(rs) = PagesFor(Matching(c)) + 1
                  /\ Len(ys) = PagesFor(Matching(c))

\* a combination of three matching records fetched in a full page, a short
\* page and a header-only response
C29_Witness ==
    /\ pc = "done"
    /\ \E c \in 1..Len(combos) :
          /\ Matching(c) = CHUNK_SIZE + 1
          /\ Len(RequestsOf(c)) = 3
          /\ RequestsOf(c)[2].records = 1
          /\ RequestsOf(c)[3].offset = 2 * CHUNK_SIZE
          /\ Len(BatchesOf(c)) = 2

\* the column a view gives a dimension: its VIEW_COLUMN_NAME_MAP entry, or
\* the dimension's own name when the view or the entry is missing
ColumnFor(view, key) ==
    IF view \in DOMAIN VIEW_COLUMN_NAME_MAP
       /\ key \in DOMAIN VIEW_COLUMN_NAME_MAP[view]
    THEN VIEW_COLUMN_NAME_MAP[view][key]
    ELSE Column(key)

ClausesOn(r, col) == {j \in DOMAIN r.conds : r.conds[j].key = col}

\* C10: the predicate of every request is built from the mapped options of
\* its combination: a dimension whose column is null for the view, or whose
\* value is null, has no clause; a dimension with a column and values has
\* exactly one clause, under the column's name and with its values as they
\* are, and none under its own name when the two differ; every clause comes
\* from such a dimension
C10_PredicateFromMappedOptions ==
    \A i \in DOMAIN requests :
        /\ requests[i].where =
               IF requests[i].conds = <<>> THEN ""
               ELSE "WHERE " \o formatAndConditions(conditionsOf(requests[i].conds))
        /\ \A k \in DOMAIN combos[requests[i].ci] :
              LET e == combos[requests[i].ci][k]
                  m == ColumnFor(viewName, e.key)
              IN  IF e.val.kind = "null" \/ m.null
                  THEN /\ ClausesOn(requests[i], e.key) = {}
                       /\ ~m.null => ClausesOn(requests[i], m.col) = {}
                  ELSE /\ IsActive(e) =>
                             /\ Cardinality(ClausesOn(requests[i], m.col)) = 1
                             /\ \A j \in ClausesOn(requests[i], m.col) :
                                   requests[i].conds[j].val = e.val
                       /\ m.col # e.key => ClausesOn(requests[i], e.key) = {}
        /\ \A j \in DOMAIN requests[i].conds :
              \E k \in DOMAIN combos[requests[i].ci] :
                  LET e == combos[requests[i].ci][k]
                      m == ColumnFor(viewName, e.key)
                  IN  /\ e.val.kind # "null"
                      /\ ~m.null
                      /\ requests[i].conds[j] = Entry(m.col, e.val)

C10_Witness ==
    /\ viewName = "CAT2_BUDGETS"
    /\ options[1].val.kind = "array"
    /\ options[2].val.kind = "null"
    /\ Len(requests) >= 1
    /\ requests[1].where = "WHERE (`ben` IN ('b2', 'b3'))"

-----------------------------------------------------------------------------
(* Properties of generateChunkedOptionsCombinations                        *)

CombinationsDone ==
    call.fn = "generateChunkedOptionsCombinations" /\ result.done

\* dimension k of the call is split by chunkArray
IsChunked(k) ==
    /\ call.opts[k].val.kind = "array"
    /\ Len(call.opts[k].val.v) > 0
    /\ ChunkSizeOf(call.sizes, call.opts[k].key) # 0

\* the number of chunks of dimension k
ChunkCount(k) ==
    IF IsChunked(k)
    THEN (Len(call.opts[k].val.v) + ChunkSizeOf(call.sizes, call.opts[k].key) - 1)
             \div ChunkSizeOf(call.sizes, call.opts[k].key)
    ELSE 1

RECURSIVE ChunkCountProduct(_, _)
ChunkCountProduct(from, to) ==
    IF from > to THEN 1 ELSE ChunkCount(from) * ChunkCountProduct(from + 1, to)

\* combinations that differ only in a later dimension are adjacent
Stride(k) == ChunkCountProduct(k + 1, Len(call.opts))

\* the chunks of dimension k, read off the combinations
DimChunks(k) ==
    [i \in 1..ChunkCount(k) |-> result.value[(i - 1) * Stride(k) + 1][k].val]

\* the combinations are every choice of one chunk per dimension, once each,
\* keyed in the order of the options
IsProductOfChunks ==
    /\ Len(result.value) = ChunkCountProduct(1, Len(call.opts))
    /\ \A c \in DOMAIN result.value :
          /\ Len(result.value[c]) = Len(call.opts)
          /\ \A k \in DOMAIN call.opts :
                result.value[c][k] =
                    Entry(call.opts[k].key,
                          DimChunks(k)[(((c - 1) \div Stride(k)) % ChunkCount(k)) + 1])

ChunkValues(k, i) == Range(DimChunks(k)[i].v)

ChunksDisjoint(k) ==
    \A i, j \in 1..ChunkCount(k) :
        i # j => ChunkValues(k, i) \cap ChunkValues(k, j) = {}

ChunksBounded(k) ==
    \A i \in 1..ChunkCount(k) :
        /\ Len(DimChunks(k)[i].v) >= 1
        /\ Len(DimChunks(k)[i].v) <= ChunkSizeOf(call.sizes, call.opts[k].key)

\* C3 as stated: the value sets of a chunked dimension's chunks partition
\* the supplied values (none omitted, none in two chunks) and no chunk holds
\* more than chunkSize values
C3_AsStated ==
    CombinationsDone =>
        /\ IsProductOfChunks
        /\ \A k \in DOMAIN call.opts :
              IsChunked(k) =>
                  /\ UNION {ChunkValues(k, i) : i \in 1..ChunkCount(k)}
                         = Range(call.opts[k].val.v)
                  /\ ChunksDisjoint(k)
                  /\ ChunksBounded(k)

\* C3: the combinations are every choice of one chunk per dimension; the
\* chunks of a chunked dimension, concatenated in order, are the supplied
\* sequence (every position in exactly one chunk), none is empty or longer
\* than chunkSize, and they share no value when the supplied values are
\* distinct; any other dimension is carried whole
C3_ChunksTileInput ==
    CombinationsDone =>
        /\ IsProductOfChunks
        /\ \A k \in DOMAIN call.opts :
              IF IsChunked(k)
              THEN /\ Flatten([i \in 1..ChunkCount(k) |-> DimChunks(k)[i].v])
                          = call.opts[k].val.v
                   /\ ChunksBounded(k)
                   /\ NoRepeats(call.opts[k].val.v) => ChunksDisjoint(k)
              ELSE DimChunks(k) = <<call.opts[k].val>>

C3_Witness ==
    /\ CombinationsDone
    /\ \A k \in DOMAIN call.opts : IsChunked(k) /\ ChunkCount(k) = 2
    /\ \E k \in DOMAIN call.opts : ~NoRepeats(call.opts[k].val.v)
    /\ Len(result.value) = 4

-----------------------------------------------------------------------------
(* Properties of buildWhereClause                                          *)

WhereDone == call.fn = "buildWhereClause" /\ result.done

\* no entry holds a value: each is null, an empty array or the empty string
NoActiveFilter(opts) ==
    \A i \in DOMAIN opts :
        \/ opts[i].val.kind = "null"
        \/ opts[i].val.kind = "array" /\ opts[i].val.v = <<>>
        \/ opts[i].val = Scalar("")

StateNC == <<Entry("state", Arr(<<"NC">>))>>

StateNCVA == <<Entry("state", Arr(<<"NC", "VA">>))>>

\* C9 as stated: the builder returns the empty string when no filter is
\* active, the bare equality for {state: ["NC"]} and the bare IN-list for
\* {state: ["NC", "VA"]}
C9_AsStated ==
    WhereDone =>
        /\ NoActiveFilter(call.opts) => result.value = ""
        /\ call.opts = StateNC => result.value = "(`state` = 'NC')"
        /\ call.opts = StateNCVA => result.value = "(`state` IN ('NC', 'VA'))"

\* C9: the builder returns the empty string when no filter is active, and
\* the keyword WHERE followed by the equality for {state: ["NC"]} and by the
\* IN-list for {state: ["NC", "VA"]}
C9_WhereKeywordThenClause ==
    WhereDone =>
        /\ NoActiveFilter(call.opts) => result.value = ""
        /\ call.opts = StateNC => result.value = "WHERE (`state` = 'NC')"
        /\ call.opts = StateNCVA
               => result.value = "WHERE (`state` IN ('NC', 'VA'))"

C9_Witness ==
    /\ WhereDone
    /\ call.opts = StateNCVA
    /\ result.value # ""

\* the value of an entry is neither null nor empty
HasValue(e) ==
    \/ e.val.kind = "array" /\ e.val.v # <<>>
    \/ e.val.kind = "scalar" /\ e.val # Scalar("")

\* the values of an entry separated by ", ", each in apostrophes but for
\* the opening apostrophe of the first, which the head of the clause holds
RECURSIVE QuotedList(_)
QuotedList(values) ==
    IF Len(values) = 1 THEN values[1] \o "'"
    ELSE Head(values) \o "', '" \o QuotedList(Tail(values))

\* the clause the claim describes for an entry with a value
ClauseFor(e) ==
    IF e.val.kind = "array" /\ Len(e.val.v) > 1
    THEN InHead(e.key) \o QuotedList(e.val.v) \o "))"
    ELSE EqHead(e.key) \o QuotedList(<<e.val.v[1]>>) \o ")"

\* the clauses of the entries with a value, in entry order, each after the
\* first preceded by " AND "
RECURSIVE ClausesFrom(_, _)
ClausesFrom(opts, first) ==
    IF opts = <<>> THEN ""
    ELSE IF ~HasValue(Head(opts)) THEN ClausesFrom(Tail(opts), first)
    ELSE (IF first THEN "" ELSE " AND ") \o ClauseFor(Head(opts))
             \o ClausesFrom(Tail(opts), FALSE)

\* C21: buildWhereClause emits, after the keyword WHERE, exactly one clause
\* per entry whose value is neither null nor empty, in entry order, joined
\* by " AND "; the clause is an IN-list exactly when the value is an array
\* of more than one element and otherwise an equality on the sole element
\* or the scalar; entries with a null or empty value contribute nothing
C21_OneClausePerActiveEntry ==
    WhereDone =>
        result.value =
            IF NoActiveFilter(call.opts) THEN ""
            ELSE "WHERE " \o ClausesFrom(call.opts, TRUE)

\* two entries with a value, one an array of two, one a scalar, and the
\* builder has answered
C21_Witness ==
    /\ WhereDone
    /\ call.opts = <<Entry("ben", Scalar("b1")),
                     Entry("state", Arr(<<"NC", "VA">>))>>
    /\ result.value = "WHERE (`ben` = 'b1') AND (`state` IN ('NC', 'VA'))"

-----------------------------------------------------------------------------
(* Properties of CALC_DELTA                                                *)

DeltaDone == call.fn \in DeltaFunctions /\ result.done

\* a one-row grid: the literal "Error", then a message
IsErrorRow(grid) ==
    /\ Len(grid) = 1
    /\ Len(grid[1]) = 2
    /\ grid[1][1] = <<"Error">>
    /\ grid[1][2] # <<>>

IsEmptyArray(x) == x.kind = "array" /\ Flatten(x.v) = <<>>

\* the three grids are arrays and none is empty
GridsGiven ==
    /\ call.currentData.kind = "array" /\ call.currentData.v # <<>>
    /\ call.previousData.kind = "array" /\ call.previousData.v # <<>>
    /\ call.headers.kind = "array" /\ Flatten(call.headers.v) # <<>>

\* C11: when current, previous or headers is an empty sequence, CALC_DELTA
\* (either report) returns a one-row grid whose first cell is "Error" and
\* whose second cell is a message
C11_EmptyInputIsErrorRow ==
    (/\ DeltaDone
     /\ \/ IsEmptyArray(call.currentData)
        \/ IsEmptyArray(call.previousData)
        \/ IsEmptyArray(call.headers))
        => IsErrorRow(result.value)

C11_Witness ==
    /\ DeltaDone
    /\ call.currentData.kind = "array" /\ call.currentData.v # <<>>
    /\ IsEmptyArray(call.previousData)
    /\ call.headers = Arr(<<DeltaHeaders>>)
    /\ call.leftPkIndex = Scalar(1)
    /\ result.value = EmptyInputError

\* the indices a key argument names, as the caller wrote them
IndicesGiven(pkIndex) == Range(pkIndex.v)

headerCount == Len(Flatten(call.headers.v))

\* C12: a call in which some left or right key column index lies outside
\* 1..headerCount returns the error row "Invalid Primary Key index. Must be
\* between 1 and <headerCount>."
C12_InvalidIndexIsErrorRow ==
    (/\ DeltaDone
     /\ GridsGiven
     /\ \E i \in IndicesGiven(call.leftPkIndex)
                    \cup IndicesGiven(call.rightPkIndex) :
            i < 1 \/ i > headerCount)
        => result.value = InvalidIndexError(headerCount)

\* the call passes the validation: the grids are given and every index the
\* code uses is in range
ValidCall ==
    /\ call.fn \in DeltaFunctions
    /\ validationError(call.currentData, call.previousData, call.headers,
                       call.leftPkIndex, call.rightPkIndex) = <<>>

flatHeaders == Flatten(call.headers.v)

leftKey == ZeroBased(leftIndexArray(call.leftPkIndex))

rightKey == ZeroBased(rightIndexArray(call.leftPkIndex, call.rightPkIndex))

\* the composite keys of the two snapshots
CurrentKeys ==
    {compositeKey(call.currentData.v[i], leftKey) :
        i \in DOMAIN call.currentData.v}

PreviousKeys ==
    {compositeKey(call.previousData.v[i], rightKey) :
        i \in DOMAIN call.previousData.v}

NoDuplicateKeys(data, zeroBased) ==
    \A i, j \in DOMAIN data :
        compositeKey(data[i], zeroBased) = compositeKey(data[j], zeroBased)
            => i = j

\* C13: for a snapshot S without duplicate keys that passes the validation,
\* CALC_DELTA(S, S, headers, [1]) returns the single row of one empty cell,
\* in both reports
C13_IdenticalSnapshotsNothingChanged ==
    (/\ DeltaDone
     /\ ValidCall
     /\ call.currentData = call.previousData
     /\ call.leftPkIndex = Arr(<<1>>)
     /\ call.rightPkIndex = Null
     /\ NoDuplicateKeys(call.currentData.v, leftKey))
        => result.value = NothingChanged

C13_Witness ==
    /\ DeltaDone
    /\ call.currentData = call.previousData
    /\ Len(call.currentData.v) = 2
    /\ call.leftPkIndex = Arr(<<1>>)
    /\ call.rightPkIndex = Null
    /\ NoDuplicateKeys(call.currentData.v, leftKey)
    /\ result.value = NothingChanged

IsStructured == call.fn = "CALC_DELTA_structured"

currentMapOfCall == keyedRows(call.currentData.v, leftKey)

previousMapOfCall == keyedRows(call.previousData.v, rightKey)

\* the rows of the report below its header row; none when the single row
\* of one empty cell is returned
BodyRows ==
    IF result.value = NothingChanged THEN {}
    ELSE {result.value[i] : i \in 2..Len(result.value)}

\* the columns of the report after the key columns
ChangeColumnCount == Len(result.value[1]) - Len(leftKey)

\* the composite key a body row shows in its leading cells
KeyOfBodyRow(row) ==
    join(SubSeq(row, 1, Len(row) - ChangeColumnCount), "|")

ChangeCells(row) ==
    SubSeq(row, Len(row) - ChangeColumnCount + 1, Len(row))

ReportedKeys == {KeyOfBodyRow(row) : row \in BodyRows}

LastCell(row) == row[Len(row)]

NoEmptyPart(key) ==
    \A i \in DOMAIN split(key, "|") : split(key, "|")[i] # <<>>

\* the body row carries the marker of a new row: "New Row" in the column so
\* headed (structured), "New row" in the Changes column (free text)
CarriesNewRowMarker(row) ==
    IF IsStructured
    THEN LastCell(result.value[1]) = <<"New Row">>
             /\ LastCell(row) = <<"New Row">>
    ELSE LastCell(row) = <<"New row">>

LastColumnNamed(name) ==
    CHOOSE n \in DOMAIN flatHeaders :
        /\ flatHeaders[n] = name
        /\ \A m \in DOMAIN flatHeaders : flatHeaders[m] = name => m <= n

\* what the "New Row" column of the structured report holds for a new key:
\* the marker, unless a header is itself named "New Row", whose value in the
\* row then takes the marker's place
NewRowCell(key) ==
    IF Includes(flatHeaders, "New Row")
    THEN Get(currentMapOfCall, key)[LastColumnNamed("New Row")]
    ELSE <<"New Row">>

C15_DeletedKeysNotReported ==
    (DeltaDone /\ ValidCall) =>
        \A k \in PreviousKeys \ CurrentKeys : k \notin ReportedKeys

C15_Witness ==
    /\ DeltaDone
    /\ ValidCall
    /\ PreviousKeys \ CurrentKeys # {}
    /\ PreviousKeys \cap CurrentKeys # {}
    /\ Cardinality(BodyRows) = 2

\* the two rows agree in every column that is neither headed "Timestamp"
\* nor a key column of either snapshot
AgreeOnComparedColumns(currentRow, previousRow) ==
    \A n \in DOMAIN flatHeaders :
        (/\ flatHeaders[n] # TIMESTAMP_COL
         /\ ~Includes(leftKey, n - 1)
         /\ ~Includes(rightKey, n - 1))
            => currentRow[n] = previousRow[n]

\* C16: the column headed "Timestamp" and the key columns are excluded from
\* change detection: a key whose current and previous rows differ only in
\* those columns is not reported, in both reports
C16_TimestampAndKeysNotCompared ==
    (DeltaDone /\ ValidCall) =>
        \A i \in DOMAIN currentMapOfCall :
            (/\ Has(previousMapOfCall, currentMapOfCall[i].key)
             /\ AgreeOnComparedColumns(
                    currentMapOfCall[i].val,
                    Get(previousMapOfCall, currentMapOfCall[i].key)))
                => currentMapOfCall[i].key \notin ReportedKeys

\* the header cells of the report after the key column names
ChangeHeaders ==
    SubSeq(result.value[1], Len(leftKey) + 1, Len(result.value[1]))

\* C17: in the structured report, when the "New Row" column is in the
\* header it is the last header column, and only that one
C17_NewRowColumnLast ==
    (DeltaDone /\ ValidCall /\ IsStructured
        /\ result.value # NothingChanged) =>
        \A j \in DOMAIN ChangeHeaders :
            ChangeHeaders[j] = <<"New Row">> => j = Len(ChangeHeaders)

C17_Witness ==
    /\ DeltaDone
    /\ ValidCall
    /\ IsStructured
    /\ result.value # NothingChanged
    /\ ChangeHeaders = << <<"amount">>, <<"New Row">> >>
    /\ LastCell(result.value[2]) = <<"New Row">>
    /\ LastCell(result.value[3]) = <<>>

\* the key qualifies: it is new, or a column that is neither a key column
\* nor headed "Timestamp" differs as a string
Qualifies(key, currentRow) ==
    \/ ~Has(previousMapOfCall, key)
    \/ \E n \in DOMAIN flatHeaders :
          /\ flatHeaders[n] # TIMESTAMP_COL
          /\ ~Includes(leftKey, n - 1)
          /\ currentRow[n] # Get(previousMapOfCall, key)[n]

\* C18: for valid inputs the single row of one empty cell is returned
\* exactly when no key of the current snapshot qualifies; otherwise the
\* report is a header row and at least one body row, and every body row
\* holds a change entry or the new-row marker
C18_SentinelIffNothingQualifies ==
    (DeltaDone /\ ValidCall) =>
        /\ result.value = NothingChanged
              <=> \A i \in DOMAIN currentMapOfCall :
                      ~Qualifies(currentMapOfCall[i].key,
                                 currentMapOfCall[i].val)
        /\ result.value # NothingChanged =>
              /\ Len(result.value) >= 2
              /\ \A row \in BodyRows :
                    \E j \in DOMAIN ChangeCells(row) :
                        ChangeCells(row)[j] # <<>>

\* one row per snapshot under the same key, the amount column alone
\* differing as strings
OneAmountChange ==
    /\ DeltaDone
    /\ ValidCall
    /\ Len(call.currentData.v) = 1
    /\ Len(call.previousData.v) = 1
    /\ CurrentKeys = PreviousKeys
    /\ \A i \in 1..4 :
           (call.currentData.v[1][i] # call.previousData.v[1][i]) <=> i = 3

currentAmount == call.currentData.v[1][3]

previousAmount == call.previousData.v[1][3]

\* a cell is a numeral: digits only, at least one
IsNumeral(cell) == cell # <<>> /\ \A i \in DOMAIN cell : IsDigit(cell[i])

\* a cell parses as a number: a numeral, or the empty cell (which is 0)
Parses(cell) == cell = <<>> \/ IsNumeral(cell)

\* the number a cell that parses stands for
RECURSIVE ValueOf(_)
ValueOf(cell) ==
    IF cell = <<>> THEN 0
    ELSE 10 * ValueOf(SubSeq(cell, 1, Len(cell) - 1))
             + DigitValue(cell[Len(cell)])

\* the indicator the report puts before the change of the amount
AmountTag == result.value[2][Len(leftKey) + 1][1]

\* C22: for a key present in both snapshots and a compared column whose two
\* values differ as strings, the change is tagged with the up arrow exactly
\* when both values parse as numbers and the current one is greater, with
\* the down arrow exactly when both parse and the current one is smaller,
\* and with the generic marker when either value does not parse
C22_TagFollowsNumericOrder ==
    OneAmountChange =>
        LET both == Parses(currentAmount) /\ Parses(previousAmount)
            cur == ValueOf(currentAmount)
            prev == ValueOf(previousAmount)
        IN  /\ Len(result.value) = 2
            /\ AmountTag = UpArrow <=> (both /\ cur > prev)
            /\ AmountTag = DownArrow <=> (both /\ cur < prev)
            /\ ~both => AmountTag = Delta

\* column n is compared by the structured report and differs, as a string,
\* between the current and the previous row of some key
ChangedSomewhere(n) ==
    /\ flatHeaders[n] # TIMESTAMP_COL
    /\ ~Includes(leftKey, n - 1)
    /\ \E i \in DOMAIN currentMapOfCall :
          /\ Has(previousMapOfCall, currentMapOfCall[i].key)
          /\ currentMapOfCall[i].val[n]
                 # Get(previousMapOfCall, currentMapOfCall[i].key)[n]

\* the names of the first n columns that changed somewhere, in header order
RECURSIVE ChangedNamesTo(_)
ChangedNamesTo(n) ==
    IF n = 0 THEN <<>>
    ELSE IF ChangedSomewhere(n)
         THEN Append(ChangedNamesTo(n - 1), <<flatHeaders[n]>>)
         ELSE ChangedNamesTo(n - 1)

SomeNewKey ==
    \E i \in DOMAIN currentMapOfCall :
        ~Has(previousMapOfCall, currentMapOfCall[i].key)

\* the current row of a key of the current snapshot
CurrentRowOf(key) == Get(currentMapOfCall, key)

\* C23: in the structured report the header is the key column names, then
\* the columns that changed in at least one row in original header order
\* (then the "New Row" column when a key is new); every body row has as
\* many cells as the header, and the row of a key present in both
\* snapshots has the empty string in exactly the changed-column cells
\* whose column did not change on that row
C23_HeaderThenPaddedRows ==
    (DeltaDone /\ ValidCall /\ IsStructured
        /\ result.value # NothingChanged) =>
        /\ result.value[1]
               = pkHeaders(flatHeaders, leftKey)
                    \o ChangedNamesTo(Len(flatHeaders))
                    \o (IF SomeNewKey THEN << <<"New Row">> >> ELSE <<>>)
        /\ \A row \in BodyRows :
              /\ Len(row) = Len(result.value[1])
              /\ Has(previousMapOfCall, KeyOfBodyRow(row)) =>
                    \A j \in DOMAIN ChangeHeaders :
                        ChangeCells(row)[j] = <<>>
                            <=> \A n \in DOMAIN flatHeaders :
                                   <<flatHeaders[n]>> = ChangeHeaders[j]
                                     => CurrentRowOf(KeyOfBodyRow(row))[n]
                                          = Get(previousMapOfCall,
                                                KeyOfBodyRow(row))[n]

\* the body row reports column n: the structured report has a cell under
\* the column's name that is not empty, the free-text report names the
\* column in its Changes cell
ReportsColumn(row, n) ==
    IF IsStructured
    THEN \E j \in DOMAIN ChangeHeaders :
            /\ ChangeHeaders[j] = <<flatHeaders[n]>>
            /\ ChangeCells(row)[j] # <<>>
    ELSE \E p \in DOMAIN LastCell(row) : LastCell(row)[p] = flatHeaders[n]

\* C24: a key present in the current snapshot and absent from the previous
\* one (no key part empty) has a body row that carries the new-row marker
\* and reports every column that is neither a key column nor the
\* timestamp as changed, in both reports
C24_NewRowReportsEveryColumn ==
    (DeltaDone /\ ValidCall) =>
        \A key \in CurrentKeys \ PreviousKeys :
            NoEmptyPart(key) =>
                \E row \in BodyRows :
                    /\ KeyOfBodyRow(row) = key
                    /\ CarriesNewRowMarker(row)
                    /\ \A n \in DOMAIN flatHeaders :
                          (/\ ~Includes(leftKey, n - 1)
                           /\ flatHeaders[n] # TIMESTAMP_COL)
                              => ReportsColumn(row, n)

\* the rows among the first n that no later row of the snapshot shares its
\* composite key with
RECURSIVE LastRowsTo(_, _, _)
LastRowsTo(data, zeroBased, n) ==
    IF n = 0 THEN <<>>
    ELSE IF \E j \in (n + 1)..Len(data) :
               compositeKey(data[j], zeroBased)
                   = compositeKey(data[n], zeroBased)
         THEN LastRowsTo(data, zeroBased, n - 1)
         ELSE Append(LastRowsTo(data, zeroBased, n - 1), data[n])

LastRows(data, zeroBased) == LastRowsTo(data, zeroBased, Len(data))

\* the report of the call's function for other snapshots
ReportFor(currentRows, previousRows) ==
    IF IsStructured
    THEN CALC_DELTA_structured(Arr(currentRows), Arr(previousRows),
                               call.headers, call.leftPkIndex,
                               call.rightPkIndex)
    ELSE CALC_DELTA_freeText(Arr(currentRows), Arr(previousRows),
                             call.headers, call.leftPkIndex,
                             call.rightPkIndex)

\* C25: when rows of one snapshot share a composite key only the last of
\* them takes part in the comparison, in current and in previous alike:
\* the report has the header and the body rows of the report for the
\* snapshots reduced to the last row of each key; and the report has at
\* most one body row per composite key of the current snapshot
C25_LastRowWins ==
    (DeltaDone /\ ValidCall) =>
        LET reduced == ReportFor(LastRows(call.currentData.v, leftKey),
                                 LastRows(call.previousData.v, rightKey))
        IN  /\ result.value[1] = reduced[1]
            /\ Len(result.value) = Len(reduced)
            /\ Range(result.value) = Range(reduced)
            /\ \A i, j \in 2..Len(result.value) :
                  KeyOfBodyRow(result.value[i]) = KeyOfBodyRow(result.value[j])
                      => i = j
            /\ result.value # NothingChanged => ReportedKeys \subseteq CurrentKeys

\* two rows of one key in each snapshot, the last rows differ where the
\* first rows agree, and a change is reported
C25_Witness ==
    /\ DeltaDone
    /\ ValidCall
    /\ Len(call.currentData.v) = 2
    /\ Len(call.previousData.v) = 2
    /\ Cardinality(CurrentKeys) = 1
    /\ CurrentKeys = PreviousKeys
    /\ call.currentData.v[1] = call.previousData.v[1]
    /\ call.currentData.v[2] # call.previousData.v[2]
    /\ Len(result.value) = 2

\* the report of the call's function for another previous snapshot and
\* other key arguments
ReportWith(previousData, leftPkIndex, rightPkIndex) ==
    IF IsStructured
    THEN CALC_DELTA_structured(call.currentData, previousData, call.headers,
                               leftPkIndex, rightPkIndex)
    ELSE CALC_DELTA_freeText(call.currentData, previousData, call.headers,
                             leftPkIndex, rightPkIndex)

\* a previous row with the cells of the right key columns copied into the
\* left key columns
Rekeyed(row) ==
    [n \in DOMAIN row |->
        IF Includes(leftKey, n - 1)
        THEN row[rightKey[indexOf(leftKey, n - 1) + 1] + 1]
        ELSE row[n]]

RekeyedPrevious ==
    Arr([i \in DOMAIN call.previousData.v |-> Rekeyed(call.previousData.v[i])])

\* C26: for all inputs the report of a call without a right key is the
\* report of the call with the left key passed as the right key; and a
\* supplied right key of valid indices serves only to key the previous
\* snapshot: the report is that of the call without a right key on the
\* previous snapshot whose left key columns hold the right key cells
C26_RightKeyDefaultsToLeft ==
    DeltaDone =>
        /\ call.rightPkIndex = Null =>
              result.value = ReportWith(call.previousData, call.leftPkIndex,
                                        call.leftPkIndex)
        /\ (ValidCall /\ Len(rightKey) = Len(leftKey)) =>
              result.value = ReportWith(RekeyedPrevious, call.leftPkIndex,
                                        Null)

\* a right key other than the left key, a current key found among the
\* previous keys, and the change of that key reported
C26_Witness ==
    /\ DeltaDone
    /\ ValidCall
    /\ call.rightPkIndex.kind = "array"
    /\ rightKey # leftKey
    /\ CurrentKeys \cap PreviousKeys # {}
    /\ result.value # NothingChanged
    /\ \E row \in BodyRows :
          /\ KeyOfBodyRow(row) \in PreviousKeys
          /\ ~CarriesNewRowMarker(row)

-----------------------------------------------------------------------------
(* Properties of withExponentialBackoff                                    *)

AllFailed == \A i \in DOMAIN invocations : ~invocations[i].ok

\* C19: the operation is invoked at most maxAttempts times (5 when the
\* option is left out); an invocation that succeeds is the last one and its
\* value is returned; when maxAttempts invocations have all failed the call
\* has thrown the one error "Operation failed after <maxAttempts> attempts:
\* <message of the last failure>"
C19_CappedAttemptsThenOneError ==
    call.fn = "withExponentialBackoff" =>
        /\ Len(invocations) = attempts
        /\ attempts <= Max(maxAttemptsOf(call.options), 0)
        /\ call.options.maxAttempts = Null => attempts <= 5
        /\ \A i \in DOMAIN invocations :
              invocations[i].ok =>
                  /\ i = Len(invocations)
                  /\ pc = "returned"
                  /\ result.value = invocations[i].text
        /\ (/\ attempts >= 1
            /\ attempts = maxAttemptsOf(call.options)
            /\ AllFailed)
              => /\ pc = "thrown"
                 /\ result.value =
                        FailureMessage(maxAttemptsOf(call.options),
                                       invocations[attempts].text[1])

C19_Witness ==
    /\ call.fn = "withExponentialBackoff"
    /\ call.options.maxAttempts = Null
    /\ pc = "thrown"
    /\ attempts = 5
    /\ invocations[1].text = <<"transient">>
    /\ invocations[5].text = <<"permanent">>
    /\ result.value = <<"Operation failed after ", "5", " attempts: ",
                        "permanent">>

\* 2 to the power n
RECURSIVE Pow2(_)
Pow2(n) == IF n = 0 THEN 1 ELSE 2 * Pow2(n - 1)

\* C27: the wait before the k-th retry is
\* min(initialDelayMs * 2^(k-1), maxDelayMs), so that no wait exceeds
\* maxDelayMs; exactly one wait lies between consecutive attempts and none
\* follows the final attempt
C27_WaitsDoubleUpToCeiling ==
    call.fn = "withExponentialBackoff" =>
        /\ \A k \in DOMAIN slept :
              /\ slept[k] = Min(initialDelayMsOf(call.options) * Pow2(k - 1),
                                maxDelayMsOf(call.options))
              /\ slept[k] <= maxDelayMsOf(call.options)
        /\ pc = "backoff" => Len(slept) = attempts
        /\ (pc \in {"returned", "thrown"} /\ attempts >= 1)
              => Len(slept) = attempts - 1

Returned == call.fn = "withExponentialBackoff" /\ pc = "returned"

\* C28: the call returns only a value produced by a successful invocation
\* of the operation, also when maxAttempts is 0 or negative; and when
\* shouldRetry rejects a failure the call has thrown at once, without a
\* sleep after that failure and without another invocation
C28_ReturnsOnlyAfterSuccess ==
    /\ Returned =>
          /\ invocations # <<>>
          /\ invocations[Len(invocations)].ok
          /\ result.value = invocations[Len(invocations)].text
    /\ call.fn = "withExponentialBackoff" =>
          \A i \in DOMAIN invocations :
              (/\ ~invocations[i].ok
               /\ ~shouldRetry(call.options, invocations[i].text[1]))
                  => /\ i = Len(invocations)
                     /\ pc = "thrown"
                     /\ Len(slept) = i - 1

-----------------------------------------------------------------------------
(* Properties of downloadUSACDataAndDelta                                  *)

\* the data rows of a grid, each with the timestamp appended
Timestamped(values, dateTimeString) ==
    [i \in 1..(Len(values) - 1) |-> Append(values[i + 1], dateTimeString)]

\* rows are the last rows of sh
EndsWith(sh, rows) ==
    /\ Len(sh) >= Len(rows)
    /\ SubSeq(sh, Len(sh) - Len(rows) + 1, Len(sh)) = rows

\* C30: in every run of downloadUSACDataAndDelta, when the first cell of
\* the current sheet is not blank the previous sheet becomes a copy of the
\* current sheet's grid, the grid's data rows are appended with the
\* timestamp to the running sheet, and the run goes on to the download of
\* the current sheet; when the first cell is blank the previous sheet and
\* the running sheet stay as they are
C30_PreviousAndRunningFollowCurrent ==
    [][runs' = runs + 1 =>
          IF FirstCellGiven(getValues(sheet))
          THEN /\ previousSheet' = sheet
               /\ EndsWith(allSheet',
                           Timestamped(sheet,
                                       dateTimeStringOf(day, runs + 1)))
               /\ result'.value = <<"ok">>
               /\ sheet' \in DownloadedGrids
          ELSE /\ previousSheet' = previousSheet
               /\ allSheet' = allSheet]_vars

====
